---- MODULE Spec2Model ----
(***************************************************************************)
(* Payment transaction pipeline of rikibio: createTransaction builds the   *)
(* payable transaction, sendTransaction broadcasts, confirms, verifies,    *)
(* records and fulfils it.                                                 *)
(***************************************************************************)
EXTENDS Integers, Sequences, FiniteSets, TLC

(***************************************************************************)
(* Bounds of the model.                                                    *)
(***************************************************************************)
\* number of sendTransaction calls that may be in flight together
NumCalls == 2
\* largest number of hours a booking payload carries
MaxHours == 2
\* largest number of 2-second timeouts one confirmation loop sees
MaxRebroadcast == 2
\* largest billing-unit multiple a forged transfer amount is built from
MaxUnits == 2
\* largest number of setup / other instructions in an aggregator bundle
MaxBundle == 1
\* concurrent calls of getMintData
NumMintCalls == 2
\* largest number of tokens minted on chain while the calls run
MaxMinted == 1

(***************************************************************************)
(* Program constants (src/lib/constants.ts).                               *)
(***************************************************************************)
HOUR_PRICE == 50
USDC_DECIMALS == 6
TEN == 10
USDC_AMOUNT == HOUR_PRICE
USDC_MINT == "USDC_MINT"
USDC_MINT_KEY == USDC_MINT
PAYMENT_REFERENCE == "PAYMENT_REFERENCE"
RIKI_PUBKEY == "RIKI_PUBKEY"
USDC_TOKEN_ACCOUNT == "USDC_TOKEN_ACCOUNT"
TOKEN_PROGRAM_ID == "TOKEN_PROGRAM_ID"
BONK_MINT == "BONK_MINT"

\* null and undefined: a record no other value of the model equals
Undefined == [undefined |-> TRUE]
\* the same where an account key (a string) is expected
NoKey == "undefined"

RECURSIVE Pow(_, _)
Pow(b, e) == IF e = 0 THEN 1 ELSE b * Pow(b, e - 1)

(***************************************************************************)
(* Strings are sequences of one-character strings, so that formatting and  *)
(* parsing are computed digit by digit.                                    *)
(***************************************************************************)
DecChars == <<"0", "1", "2", "3", "4", "5", "6", "7", "8", "9">>
HexChars == DecChars \o <<"a", "b", "c", "d", "e", "f">>

CharsOf(alphabet) == {alphabet[i] : i \in 1..Len(alphabet)}
CharVal(alphabet, ch) == (CHOOSE i \in 1..Len(alphabet) : alphabet[i] = ch) - 1

\* n.toString(radix) of a non-negative integer
RECURSIVE FormatRadix(_, _)
FormatRadix(alphabet, n) ==
    IF n < Len(alphabet)
    THEN <<alphabet[n + 1]>>
    ELSE FormatRadix(alphabet, n \div Len(alphabet)) \o <<alphabet[(n % Len(alphabet)) + 1]>>

\* value of the first n digits of a digit string in the radix of the alphabet
RECURSIVE ParseDigits(_, _, _)
ParseDigits(alphabet, s, n) ==
    IF n = 0
    THEN 0
    ELSE ParseDigits(alphabet, s, n - 1) * Len(alphabet) + CharVal(alphabet, s[n])

\* value of a digit string in the radix of the alphabet
ParseRadix(alphabet, s) == ParseDigits(alphabet, s, Len(s))

AllIn(s, chars) == \A i \in 1..Len(s) : s[i] \in chars

(***************************************************************************)
(* bignumber.js values: c / 10^dp, or NaN.                                 *)
(***************************************************************************)
BigNumberNaN == [nan |-> TRUE, c |-> 0, dp |-> 0]
BigNumberOf(n) == [nan |-> FALSE, c |-> n, dp |-> 0]

\* new BigNumber(string): digits with at most one decimal point
BigNumberFromString(s) ==
    LET dots == {i \in 1..Len(s) : s[i] = "."}
        digits == SelectSeq(s, LAMBDA ch : ch # ".")
    IN  IF /\ Len(digits) > 0
           /\ AllIn(digits, CharsOf(DecChars))
           /\ Cardinality(dots) <= 1
        THEN [nan |-> FALSE,
              c |-> ParseRadix(DecChars, digits),
              dp |-> IF dots = {} THEN 0 ELSE Len(s) - (CHOOSE i \in dots : TRUE)]
        ELSE BigNumberNaN

BigNumberTimes(a, b) ==
    IF a.nan \/ b.nan THEN BigNumberNaN
    ELSE [nan |-> FALSE, c |-> a.c * b.c, dp |-> a.dp + b.dp]

\* integerValue(BigNumber.ROUND_FLOOR)
BigNumberFloor(a) ==
    IF a.nan THEN BigNumberNaN
    ELSE [nan |-> FALSE, c |-> a.c \div Pow(10, a.dp), dp |-> 0]

\* new BigNumber(string, 16) of an integer written in hexadecimal
BigNumberFromHex(s) ==
    IF Len(s) > 0 /\ AllIn(s, CharsOf(HexChars))
    THEN BigNumberOf(ParseRadix(HexChars, s))
    ELSE BigNumberNaN

\* mutant: an integer division, which drops the remainder
BigNumberDividedByFloored(a, b) ==
    IF a.nan \/ b.nan \/ b.c = 0
    THEN [nan |-> TRUE, whole |-> 0, rem |-> 0]
    ELSE [nan |-> FALSE, whole |-> a.c \div b.c, rem |-> 0]

\* a.dividedBy(b) of two integer values, kept as whole part and remainder: the
\* quotient of a u64 amount by the unit price 5 * 10^7 has at most 8 decimal
\* places, inside bignumber.js's DECIMAL_PLACES of 20, so no digit is rounded away
BigNumberDividedBy(a, b) ==
    IF a.nan \/ b.nan \/ b.c = 0
    THEN [nan |-> TRUE, whole |-> 0, rem |-> 0]
    ELSE [nan |-> FALSE, whole |-> a.c \div b.c, rem |-> a.c % b.c]

\* quotient.isInteger()
QuotientIsInteger(q) == ~q.nan /\ q.rem = 0

\* String(x) of an integer-valued BigNumber
BigNumberToString(a) ==
    IF a.nan THEN <<"N", "a", "N">> ELSE FormatRadix(DecChars, a.c)

\* BigInt(string): a SyntaxError unless every character is a digit
BigIntOk(s) == AllIn(s, CharsOf(DecChars))
BigIntOf(s) == ParseRadix(DecChars, s)

(***************************************************************************)
(* Instructions: a program id, account metas and a decoded payload.        *)
(***************************************************************************)
Meta(pubkey, isSigner, isWritable) ==
    [pubkey |-> pubkey, isSigner |-> isSigner, isWritable |-> isWritable]

TransferChecked == 12

\* createTransferCheckedInstruction of @solana/spl-token
createTransferCheckedInstruction(source, mint, destination, owner, amount, decimals) ==
    [programId |-> TOKEN_PROGRAM_ID,
     keys |-> <<Meta(source, FALSE, TRUE), Meta(mint, FALSE, FALSE),
                Meta(destination, FALSE, TRUE), Meta(owner, TRUE, FALSE)>>,
     data |-> [instruction |-> TransferChecked, amount |-> amount, decimals |-> decimals]]

\* mutant: the settlement transfer without the reference tag
createPayInstructionNoReference(amount, sender, senderATA) ==
    createTransferCheckedInstruction(
        senderATA, USDC_MINT_KEY, USDC_TOKEN_ACCOUNT, sender, BigIntOf(amount), USDC_DECIMALS)

\* the settlement transfer with the reference tag pushed as its fifth key
createPayInstruction(amount, sender, senderATA) ==
    LET tokens == BigIntOf(amount)
        payInstruction == createTransferCheckedInstruction(
            senderATA, USDC_MINT_KEY, USDC_TOKEN_ACCOUNT, sender, tokens, USDC_DECIMALS)
    IN  [payInstruction EXCEPT
            !.keys = Append(@, Meta(PAYMENT_REFERENCE, FALSE, FALSE))]

COMPUTE_BUDGET_PROGRAM == "ComputeBudget111"
SetComputeUnitLimit(units) ==
    [programId |-> COMPUTE_BUDGET_PROGRAM, keys |-> <<>>,
     data |-> [instruction |-> 2, units |-> units]]
SetComputeUnitPrice(microLamports) ==
    [programId |-> COMPUTE_BUDGET_PROGRAM, keys |-> <<>>,
     data |-> [instruction |-> 3, microLamports |-> microLamports]]

\* deserializeInstruction: descriptor (programId, accounts, base64 data) to instruction
deserializeInstruction(instruction) ==
    [programId |-> instruction.programId,
     keys |-> [i \in 1..Len(instruction.accounts) |->
                  Meta(instruction.accounts[i].pubkey,
                       instruction.accounts[i].isSigner,
                       instruction.accounts[i].isWritable)],
     data |-> instruction.data]

MapSeq(s, Op(_)) == [i \in 1..Len(s) |-> Op(s[i])]

\* mutant: the swap instruction ahead of the setup instructions
getJupInstructionsSwapFirst(response) ==
    <<deserializeInstruction(response.swapInstruction)>>
    \o MapSeq(response.setupInstructions, deserializeInstruction)
    \o (IF response.cleanupInstruction # Undefined
        THEN <<deserializeInstruction(response.cleanupInstruction)>> ELSE <<>>)
    \o MapSeq(response.otherInstructions, deserializeInstruction)

\* getJupInstructions after the two aggregator requests: setup*, swap, cleanup?,
\* other*. A null list and an empty list add nothing alike, so null is the empty list.
getJupInstructions(response) ==
    (IF Len(response.setupInstructions) > 0
     THEN MapSeq(response.setupInstructions, deserializeInstruction) ELSE <<>>)
    \o <<deserializeInstruction(response.swapInstruction)>>
    \o (IF response.cleanupInstruction # Undefined
        THEN <<deserializeInstruction(response.cleanupInstruction)>> ELSE <<>>)
    \o (IF Len(response.otherInstructions) > 0
        THEN MapSeq(response.otherInstructions, deserializeInstruction) ELSE <<>>)

(***************************************************************************)
(* TransactionMessage.compileToV0Message of @solana/web3.js: the account   *)
(* keys of all instructions are collected once each (payer first), keys    *)
(* found in a lookup table that are neither signers nor program ids are    *)
(* loaded through the table, the rest are the static account keys; every   *)
(* instruction then names its accounts by index. Indexes count from 1.     *)
(***************************************************************************)
IxMetas(ix) ==
    <<[pubkey |-> ix.programId, isSigner |-> FALSE, isWritable |-> FALSE, isInvoked |-> TRUE]>>
    \o [i \in 1..Len(ix.keys) |->
          [pubkey |-> ix.keys[i].pubkey, isSigner |-> ix.keys[i].isSigner,
           isWritable |-> ix.keys[i].isWritable, isInvoked |-> FALSE]]

RECURSIVE FlattenMetas(_)
FlattenMetas(ixs) ==
    IF ixs = <<>> THEN <<>> ELSE IxMetas(Head(ixs)) \o FlattenMetas(Tail(ixs))

RECURSIVE UniqueKeys(_, _)
UniqueKeys(metas, seen) ==
    IF metas = <<>> THEN <<>>
    ELSE IF Head(metas).pubkey \in seen THEN UniqueKeys(Tail(metas), seen)
    ELSE <<Head(metas).pubkey>> \o UniqueKeys(Tail(metas), seen \cup {Head(metas).pubkey})

IndexOf(s, k) == CHOOSE i \in 1..Len(s) : s[i] = k
Contains(s, k) == \E i \in 1..Len(s) : s[i] = k

RECURSIVE ConcatAll(_)
ConcatAll(ss) == IF ss = <<>> THEN <<>> ELSE Head(ss) \o ConcatAll(Tail(ss))

compileToV0Message(payerKey, recentBlockhash, instructions, addressLookupTableAccounts) ==
    LET metas == <<[pubkey |-> payerKey, isSigner |-> TRUE, isWritable |-> TRUE,
                    isInvoked |-> FALSE]>> \o FlattenMetas(instructions)
        keys == UniqueKeys(metas, {})
        Signer(k) == \E i \in 1..Len(metas) : metas[i].pubkey = k /\ metas[i].isSigner
        Writable(k) == \E i \in 1..Len(metas) : metas[i].pubkey = k /\ metas[i].isWritable
        Invoked(k) == \E i \in 1..Len(metas) : metas[i].pubkey = k /\ metas[i].isInvoked
        tables == addressLookupTableAccounts
        InTable(k, t) == Contains(tables[t].addresses, k)
        Drained(k) == ~Signer(k) /\ ~Invoked(k) /\ \E t \in 1..Len(tables) : InTable(k, t)
        TableOf(k) == CHOOSE t \in 1..Len(tables) :
                          InTable(k, t) /\ \A u \in 1..(t - 1) : ~InTable(k, u)
        static ==
            SelectSeq(keys, LAMBDA k : Signer(k) /\ Writable(k))
            \o SelectSeq(keys, LAMBDA k : Signer(k) /\ ~Writable(k))
            \o SelectSeq(keys, LAMBDA k : ~Signer(k) /\ Writable(k) /\ ~Drained(k))
            \o SelectSeq(keys, LAMBDA k : ~Signer(k) /\ ~Writable(k) /\ ~Drained(k))
        Loaded(w) == ConcatAll([t \in 1..Len(tables) |->
            SelectSeq(keys, LAMBDA k : Drained(k) /\ Writable(k) = w /\ TableOf(k) = t)])
        accountKeys == static \o Loaded(TRUE) \o Loaded(FALSE)
    IN  [recentBlockhash |-> recentBlockhash,
         staticAccountKeys |-> static,
         compiledInstructions |->
            [i \in 1..Len(instructions) |->
                [programIdIndex |-> IndexOf(accountKeys, instructions[i].programId),
                 accountKeyIndexes |->
                    [j \in 1..Len(instructions[i].keys) |->
                        IndexOf(accountKeys, instructions[i].keys[j].pubkey)],
                 data |-> instructions[i].data]],
         addressTableLookups |->
            SelectSeq([t \in 1..Len(tables) |-> tables[t].key],
                      LAMBDA a : \E k \in CharsOf(keys) :
                          Drained(k) /\ tables[TableOf(k)].key = a)]

(***************************************************************************)
(* FeeEstimator / TransactionAssembler (src/lib/solana.ts).                *)
(***************************************************************************)
\* mutant: the tables up to the first key that does not resolve
RECURSIVE getAddressLookupTableAccountsUntilMissing(_, _)
getAddressLookupTableAccountsUntilMissing(keys, accountInfos) ==
    IF Len(keys) = 0 \/ accountInfos[1] = Undefined THEN <<>>
    ELSE <<[key |-> keys[1], addresses |-> accountInfos[1].addresses]>>
         \o getAddressLookupTableAccountsUntilMissing(Tail(keys), Tail(accountInfos))

\* getAddressLookupTableAccounts: the tables of the keys whose account resolved, in
\* key order; accountInfos[i] is Undefined for a key that did not resolve. The
\* undefined returned for an empty key list compiles like no table.
getAddressLookupTableAccounts(keys, accountInfos) ==
    IF Len(keys) = 0 THEN <<>>
    ELSE ConcatAll([index \in 1..Len(keys) |->
            IF accountInfos[index] # Undefined
            THEN <<[key |-> keys[index], addresses |-> accountInfos[index].addresses]>>
            ELSE <<>>])

\* mutant: the compute-budget instructions pushed behind the list, not in front
getInstructionsPushed(initialInstructions, unitsConsumed, priorityFeeEstimate) ==
    initialInstructions
    \o <<SetComputeUnitLimit(IF unitsConsumed # 0 THEN unitsConsumed ELSE 1400000),
         SetComputeUnitPrice(IF priorityFeeEstimate # 0 THEN priorityFeeEstimate ELSE 5000)>>

\* getInstructions after simulation: unitsConsumed = 0 stands for a missing or zero
\* count, priorityFeeEstimate = 0 for a missing or zero estimate
getInstructions(initialInstructions, unitsConsumed, priorityFeeEstimate) ==
    LET units == IF unitsConsumed # 0 THEN unitsConsumed ELSE 1400000
        microLamports == IF priorityFeeEstimate # 0 THEN priorityFeeEstimate ELSE 5000
        computePriceInstruction == SetComputeUnitPrice(microLamports)
        computeBudgetInstruction == SetComputeUnitLimit(units)
    IN  <<computeBudgetInstruction, computePriceInstruction>> \o initialInstructions

\* getTransaction: Undefined stands for a rejected promise (a failed RPC call)
getTransaction(initialInstructions, payerKey, addressLookupTableAddresses, rpc) ==
    IF ~rpc.simulateOk \/ ~rpc.priorityFeeOk THEN Undefined
    ELSE LET addressLookupTableAccounts ==
                 getAddressLookupTableAccounts(addressLookupTableAddresses, rpc.accountInfos)
             instructions ==
                 getInstructions(initialInstructions, rpc.unitsConsumed, rpc.priorityFeeEstimate)
         IN  compileToV0Message(payerKey, rpc.blockhash, instructions,
                                addressLookupTableAccounts)

\* getAssociatedTokenAddress(USDC_MINT_KEY, owner): one derived address per owner
getAssociatedTokenAddress(mint, owner) ==
    IF owner = RIKI_PUBKEY /\ mint = USDC_MINT_KEY THEN USDC_TOKEN_ACCOUNT
    ELSE IF owner = "PAYER" /\ mint = USDC_MINT_KEY THEN "PAYER_USDC_ATA"
    ELSE "OTHER_ATA"

\* mutant: the amount scaled by the decimals of the paying token (BONK has 5)
composeAmountTokenDecimals(quantity) ==
    BigNumberToString(BigNumberFloor(
        BigNumberTimes(BigNumberTimes(BigNumberOf(USDC_AMOUNT), BigNumberFromString(quantity)),
                       BigNumberOf(Pow(TEN, 5)))))

\* amount = String(USDC_AMOUNT * quantity * TEN^USDC_DECIMALS, floored)
composeAmount(quantity) ==
    LET quantityBN == BigNumberFromString(quantity)
    IN  BigNumberToString(BigNumberFloor(
            BigNumberTimes(BigNumberTimes(BigNumberOf(USDC_AMOUNT), quantityBN),
                           BigNumberOf(Pow(TEN, USDC_DECIMALS)))))

\* createTransaction: Undefined when an error was caught (the function then
\* returns nothing). env holds what the RPC node and the aggregator answer.
createTransaction(pubkey, quantity, currency, env) ==
    LET signer == pubkey
        senderATA == getAssociatedTokenAddress(USDC_MINT_KEY, signer)
        senderAccount == env.senderAccount
        amount == composeAmount(quantity)
        swap == currency # USDC_MINT
        instructions == IF swap THEN getJupInstructions(env.jup) ELSE <<>>
        lookupTableAddresses == IF swap THEN env.jup.addressLookupTableAddresses ELSE <<>>
    IN  IF ~senderAccount.found THEN Undefined
        ELSE IF ~senderAccount.isInitialized THEN Undefined
        ELSE IF senderAccount.isFrozen THEN Undefined
        ELSE IF swap /\ (~env.tokenInfoOk \/ ~env.jupOk) THEN Undefined
        ELSE IF ~swap /\ ~BigIntOk(amount) THEN Undefined
        ELSE IF ~swap /\ BigIntOf(amount) > senderAccount.amount THEN Undefined
        ELSE IF ~BigIntOk(amount) THEN Undefined
        ELSE getTransaction(
                Append(instructions, createPayInstruction(amount, signer, senderATA)),
                signer, lookupTableAddresses, env.rpc)

(***************************************************************************)
(* Chain state read by the verifier: the token accounts that exist, with   *)
(* the owner and mint stored in them (AccountLayout.decode).               *)
(***************************************************************************)
TokenAccounts ==
    {USDC_TOKEN_ACCOUNT, "RIKI_BONK_ACCOUNT", "OTHER_USDC_ACCOUNT", "OTHER_BONK_ACCOUNT"}

getAccountInfo(address) ==
    IF address = USDC_TOKEN_ACCOUNT THEN [owner |-> RIKI_PUBKEY, mint |-> USDC_MINT]
    ELSE IF address = "RIKI_BONK_ACCOUNT" THEN [owner |-> RIKI_PUBKEY, mint |-> BONK_MINT]
    ELSE IF address = "OTHER_USDC_ACCOUNT" THEN [owner |-> "OTHER", mint |-> USDC_MINT]
    ELSE IF address = "OTHER_BONK_ACCOUNT" THEN [owner |-> "OTHER", mint |-> BONK_MINT]
    ELSE Undefined

(***************************************************************************)
(* The verifier of sendTransaction (src/unnamed/part_000 lines 68-105).    *)
(***************************************************************************)
\* a signature is determined by the signed message
SignatureOf(message) == [signatureOf |-> message]

\* the unit price in base units: BigNumber(HOUR_PRICE).times(TEN.pow(6)), floored
price ==
    BigNumberFloor(BigNumberTimes(BigNumberOf(HOUR_PRICE),
                                  BigNumberOf(Pow(TEN, USDC_DECIMALS))))

\* instructions.pop(): the last compiled instruction, Undefined when there is none
payInstructionOf(message) ==
    IF Len(message.compiledInstructions) = 0 THEN Undefined
    ELSE message.compiledInstructions[Len(message.compiledInstructions)]

\* the n-th of [source, mint, destination, owner, paymentReference]: the static
\* account key at the n-th index of the instruction, NoKey past either array
accountKeyOf(message, payInstruction, n) ==
    IF n > Len(payInstruction.accountKeyIndexes) THEN NoKey
    ELSE IF payInstruction.accountKeyIndexes[n] > Len(message.staticAccountKeys)
    THEN NoKey
    ELSE message.staticAccountKeys[payInstruction.accountKeyIndexes[n]]

\* transferCheckedInstructionData.decode succeeds on a payload of that layout
decodes(payInstruction) == "amount" \in DOMAIN payInstruction.data

\* rawAmount.toString(16)
amountOf(payInstruction) == FormatRadix(HexChars, payInstruction.data.amount)

\* new BigNumber(amount, 16).dividedBy(price)
quotientOf(payInstruction) ==
    BigNumberDividedBy(BigNumberFromHex(amountOf(payInstruction)), price)

NoError == "none"

\* lines 73-83: what is thrown before the destination account is fetched
decodeError(message) ==
    LET payInstruction == payInstructionOf(message)
    IN  IF payInstruction = Undefined THEN "missing transfer instruction"
        ELSE IF ~decodes(payInstruction) THEN "RangeError"
        ELSE NoError

\* the message thrown by each of the four checks (lines 101-105)
checkMessage(check) ==
    IF check = "amount" THEN "amount not transferred"
    ELSE IF check = "reference" THEN "wrong app reference"
    ELSE IF check = "owner" THEN "wrong seller"
    ELSE "wrong seller"

\* mutant: the verifier without its reference check
verifyErrorNoReferenceCheck(message) ==
    LET payInstruction == payInstructionOf(message)
        destination == accountKeyOf(message, payInstruction, 3)
        owner == accountKeyOf(message, payInstruction, 4)
        sellerATA == getAccountInfo(destination)
    IN  IF destination = NoKey THEN "TypeError"
        ELSE IF sellerATA = Undefined THEN "error fetching ata info"
        ELSE IF owner = NoKey THEN "TypeError"
        ELSE IF ~QuotientIsInteger(quotientOf(payInstruction)) THEN checkMessage("amount")
        ELSE IF sellerATA.owner # RIKI_PUBKEY THEN checkMessage("owner")
        ELSE IF sellerATA.mint # USDC_MINT THEN checkMessage("mint")
        ELSE NoError

\* mutant: the verifier without its destination-mint check
verifyErrorNoMintCheck(message) ==
    LET payInstruction == payInstructionOf(message)
        destination == accountKeyOf(message, payInstruction, 3)
        owner == accountKeyOf(message, payInstruction, 4)
        paymentReference == accountKeyOf(message, payInstruction, 5)
        sellerATA == getAccountInfo(destination)
    IN  IF destination = NoKey THEN "TypeError"
        ELSE IF sellerATA = Undefined THEN "error fetching ata info"
        ELSE IF owner = NoKey THEN "TypeError"
        ELSE IF ~QuotientIsInteger(quotientOf(payInstruction)) THEN checkMessage("amount")
        ELSE IF paymentReference = NoKey THEN "TypeError"
        ELSE IF PAYMENT_REFERENCE # paymentReference THEN checkMessage("reference")
        ELSE IF sellerATA.owner # RIKI_PUBKEY THEN checkMessage("owner")
        ELSE NoError

\* lines 85-105: what is thrown once the destination account has been fetched
verifyError(message) ==
    LET payInstruction == payInstructionOf(message)
        destination == accountKeyOf(message, payInstruction, 3)
        owner == accountKeyOf(message, payInstruction, 4)
        paymentReference == accountKeyOf(message, payInstruction, 5)
        sellerATA == getAccountInfo(destination)
        seller == sellerATA.owner
        currency == sellerATA.mint
        quotient == quotientOf(payInstruction)
    IN  IF destination = NoKey THEN "TypeError"
        ELSE IF sellerATA = Undefined THEN "error fetching ata info"
        ELSE IF owner = NoKey THEN "TypeError"
        ELSE IF ~QuotientIsInteger(quotient) THEN checkMessage("amount")
        ELSE IF paymentReference = NoKey THEN "TypeError"
        ELSE IF PAYMENT_REFERENCE # paymentReference THEN checkMessage("reference")
        ELSE IF seller # RIKI_PUBKEY THEN checkMessage("owner")
        ELSE IF currency # USDC_MINT THEN checkMessage("mint")
        ELSE NoError

\* the document written to cryptoPayment/<signature>
paymentRecord(message) ==
    LET payInstruction == payInstructionOf(message)
    IN  [signature |-> SignatureOf(message),
         signer |-> accountKeyOf(message, payInstruction, 4),
         currency |-> getAccountInfo(accountKeyOf(message, payInstruction, 3)).mint,
         amount |-> amountOf(payInstruction)]

(***************************************************************************)
(* State.                                                                  *)
(***************************************************************************)
VARIABLES
    pc,             \* pc[c]: where call c of sendTransaction stands
    transaction,    \* transaction[c]: the signed message call c was given
    data,           \* data[c]: the booking payload call c was given
    rebroadcasts,   \* rebroadcasts[c]: resubmissions made by call c's confirmation loop
    result,         \* result[c]: what call c returned
    network,        \* the messages broadcast to the cluster
    landed,         \* the messages executed on chain
    cryptoPayment,  \* the collection cryptoPayment: signature -> document
    meetings,       \* one entry per generateMeet invocation, in order
    built,          \* what the last createTransaction call returned, with its request
    timeouts,       \* timeouts[c]: races of call c that the 2-second timer won
    sent,           \* sent[c]: the messages call c passed to sendRawTransaction, in order
    expired,        \* the broadcast messages whose blockhash expired before they landed
    indexed,        \* the landed messages that getTransaction returns
    http,           \* the ky request in progress: its options, attempts and outcome
    systemTransfer, \* the last createSystemInstruction call: arguments and outcome
    create,         \* the createTransaction call in progress: position, requests issued
    mintDocs,       \* the collection mint: mint address -> document
    mintCall,       \* mintCall[k]: where call k of getMintData stands, what it did
    chainMint,      \* the mint accounts on chain, as MintLayout decodes them
    mintsResult,    \* the last getMints call: arguments and what it returned
    failed,         \* the landed messages whose execution failed on chain
    toast           \* toast[c]: what handleSolanaPayment showed after call c returned

vars == <<pc, transaction, data, rebroadcasts, result, network, landed,
          cryptoPayment, meetings, built, timeouts, sent, expired, indexed,
          http, systemTransfer, create, mintDocs, mintCall, chainMint, mintsResult,
          failed, toast>>

\* the state of the mint cache: the collection, the calls and the chain's accounts
mintVars == <<mintDocs, mintCall, chainMint, mintsResult>>

\* the state of the library calls that run outside a sendTransaction call, with
\* the execution failures and the client's toasts that sendTransaction never writes
libVars == <<http, systemTransfer, create, mintVars, failed, toast>>

\* the state of the sendTransaction calls, of the chain and of createTransaction
paymentVars == <<pc, transaction, data, rebroadcasts, result, network, landed,
                 cryptoPayment, meetings, built, timeouts, sent, expired, indexed>>

\* what a library call of one kind leaves alone
besidesHttp == <<paymentVars, systemTransfer, create, mintVars, failed, toast>>
besidesSystem == <<paymentVars, http, create, mintVars, failed, toast>>
besidesCreate == <<paymentVars, http, systemTransfer, mintVars, failed, toast>>
besidesMint == <<paymentVars, http, systemTransfer, create, failed, toast>>

Calls == 1..NumCalls

\* the hours a visitor can pick (MeetingForm.tsx baseHours), and the payloads
BaseHours == <<"16:00", "17:00", "18:00", "19:00">>
Payloads == {[hours |-> SubSeq(BaseHours, 1, n)] : n \in 1..MaxHours}

\* the calls of getMintData, and the mint accounts the chain holds at the start:
\* MintLayout.decode of the account of USDC (6 decimals, both authorities set)
\* and of BONK (5 decimals, no authority); "GHOST_MINT" has no account
MintCalls == 1..NumMintCalls
NO_AUTHORITY == "11111111111111111111111111111111"
DecodedMint(mintAuthority, supply, decimals, freezeAuthority) ==
    [mintAuthorityOption |-> IF mintAuthority = NO_AUTHORITY THEN 0 ELSE 1,
     mintAuthority |-> mintAuthority,
     supply |-> supply,
     decimals |-> decimals,
     isInitialized |-> TRUE,
     freezeAuthorityOption |-> IF freezeAuthority = NO_AUTHORITY THEN 0 ELSE 1,
     freezeAuthority |-> freezeAuthority]
InitialChainMint ==
    (USDC_MINT :> DecodedMint("CIRCLE_MINTER", 10, USDC_DECIMALS, "CIRCLE_FREEZER"))
    @@ (BONK_MINT :> DecodedMint(NO_AUTHORITY, 93, 5, NO_AUTHORITY))

Init ==
    /\ pc = [c \in Calls |-> "idle"]
    /\ transaction = [c \in Calls |-> Undefined]
    /\ data = [c \in Calls |-> Undefined]
    /\ rebroadcasts = [c \in Calls |-> 0]
    /\ result = [c \in Calls |-> Undefined]
    /\ network = {}
    /\ landed = {}
    /\ cryptoPayment = <<>>
    /\ meetings = <<>>
    /\ built = Undefined
    /\ timeouts = [c \in Calls |-> 0]
    /\ sent = [c \in Calls |-> <<>>]
    /\ expired = {}
    /\ indexed = {}
    /\ http = Undefined
    /\ systemTransfer = Undefined
    /\ create = Undefined
    /\ mintDocs = <<>>
    /\ mintCall = [k \in MintCalls |-> Undefined]
    /\ chainMint = InitialChainMint
    /\ mintsResult = Undefined
    /\ failed = {}
    /\ toast = [c \in Calls |-> Undefined]

(***************************************************************************)
(* sendTransaction, one action per await.                                  *)
(***************************************************************************)
Return(c, value) ==
    /\ pc' = [pc EXCEPT ![c] = "done"]
    /\ result' = [result EXCEPT ![c] = value]

Signature(sig) == [signature |-> sig]
ErrorMessage(msg) == [message |-> msg]

\* lines 23-43: deserialize, first broadcast, start of the confirmation
Broadcast(c, message, payload) ==
    /\ pc[c] = "idle"
    /\ transaction' = [transaction EXCEPT ![c] = message]
    /\ data' = [data EXCEPT ![c] = payload]
    /\ network' = network \cup {message}
    /\ sent' = [sent EXCEPT ![c] = <<message>>]
    /\ pc' = [pc EXCEPT ![c] = "confirm"]
    /\ UNCHANGED <<rebroadcasts, result, landed, cryptoPayment, meetings, built,
                   timeouts, expired, indexed, libVars>>

\* mutant: the loop gives up at a timeout and line 66 throws
TimeoutGivesUp(c) ==
    /\ pc[c] = "confirm"
    /\ timeouts' = [timeouts EXCEPT ![c] = @ + 1]
    /\ Return(c, ErrorMessage("Transaction confirmation failed"))
    /\ UNCHANGED <<transaction, data, rebroadcasts, network, landed,
                   cryptoPayment, meetings, built, sent, expired, indexed, libVars>>

\* lines 46-55: the 2-second timer wins the race against the confirmation
Timeout(c) ==
    /\ pc[c] = "confirm"
    /\ timeouts[c] < MaxRebroadcast
    /\ timeouts' = [timeouts EXCEPT ![c] = @ + 1]
    /\ pc' = [pc EXCEPT ![c] = "resend"]
    /\ UNCHANGED <<transaction, data, rebroadcasts, result, network, landed,
                   cryptoPayment, meetings, built, sent, expired, indexed, libVars>>

\* mutant: after a timeout the loop goes round without sending anything
RebroadcastSkipped(c) ==
    /\ pc[c] = "resend"
    /\ pc' = [pc EXCEPT ![c] = "confirm"]
    /\ UNCHANGED <<transaction, data, rebroadcasts, result, network, landed,
                   cryptoPayment, meetings, built, timeouts, sent, expired, indexed, libVars>>

\* lines 55-63: the bytes of the first broadcast are serialized and sent again
Rebroadcast(c) ==
    /\ pc[c] = "resend"
    /\ rebroadcasts' = [rebroadcasts EXCEPT ![c] = @ + 1]
    /\ network' = network \cup {transaction[c]}
    /\ sent' = [sent EXCEPT ![c] = Append(@, transaction[c])]
    /\ pc' = [pc EXCEPT ![c] = "confirm"]
    /\ UNCHANGED <<transaction, data, result, landed, cryptoPayment, meetings, built,
                   timeouts, expired, indexed, libVars>>

\* what the RPC client reports when the blockhash of a transaction has expired
BlockhashNotFound == "Blockhash not found"
BlockheightExceeded == "block height exceeded"

\* lines 56-62, 118-121: the node refuses the resubmission of an expired
\* transaction; sendRawTransaction rejects and the catch returns the message
RebroadcastRejected(c) ==
    /\ pc[c] = "resend"
    /\ transaction[c] \in expired
    /\ Return(c, ErrorMessage(BlockhashNotFound))
    /\ UNCHANGED <<transaction, data, rebroadcasts, network, landed, cryptoPayment,
                   meetings, built, timeouts, sent, expired, indexed, libVars>>

\* lines 45-66: the confirmation wins the race
Confirmed(c) ==
    /\ pc[c] = "confirm"
    /\ transaction[c] \in landed
    /\ pc' = [pc EXCEPT ![c] = "fetch"]
    /\ UNCHANGED <<transaction, data, rebroadcasts, result, network, landed,
                   cryptoPayment, meetings, built, timeouts, sent, expired, indexed, libVars>>

\* lines 36-47, 118-121: confirmTransaction rejects once the block height passes
\* lastValidBlockHeight; the race rejects and the catch returns the message
ConfirmationExpired(c) ==
    /\ pc[c] = "confirm"
    /\ transaction[c] \in expired
    /\ Return(c, ErrorMessage(BlockheightExceeded))
    /\ UNCHANGED <<transaction, data, rebroadcasts, network, landed, cryptoPayment,
                   meetings, built, timeouts, sent, expired, indexed, libVars>>

\* the request is cut off while it waits in the confirmation loop (the caller's
\* deadline, or the server function's own time limit)
Abandon(c) ==
    /\ pc[c] \in {"confirm", "resend"}
    /\ pc' = [pc EXCEPT ![c] = "abandoned"]
    /\ UNCHANGED <<transaction, data, rebroadcasts, result, network, landed,
                   cryptoPayment, meetings, built, timeouts, sent, expired, indexed, libVars>>

\* lines 68-88, 126-131: getTransaction answers, the last instruction is decoded
FetchTransaction(c) ==
    /\ pc[c] = "fetch"
    /\ transaction[c] \in indexed
    /\ IF decodeError(transaction[c]) # NoError
       THEN Return(c, ErrorMessage(decodeError(transaction[c])))
       ELSE pc' = [pc EXCEPT ![c] = "verify"] /\ UNCHANGED result
    /\ UNCHANGED <<transaction, data, rebroadcasts, network, landed,
                   cryptoPayment, meetings, built, timeouts, sent, expired, indexed, libVars>>

\* lines 126-133: getTransaction answers null, the retry delay starts
FetchNotFound(c) ==
    /\ pc[c] = "fetch"
    /\ transaction[c] \notin indexed
    /\ pc' = [pc EXCEPT ![c] = "fetchDelay"]
    /\ UNCHANGED <<transaction, data, rebroadcasts, result, network, landed,
                   cryptoPayment, meetings, built, timeouts, sent, expired, indexed, libVars>>

\* lines 133-134: after retryDelay fetchTransaction calls itself
FetchRetry(c) ==
    /\ pc[c] = "fetchDelay"
    /\ pc' = [pc EXCEPT ![c] = "fetch"]
    /\ UNCHANGED <<transaction, data, rebroadcasts, result, network, landed,
                   cryptoPayment, meetings, built, timeouts, sent, expired, indexed, libVars>>

\* mutant: a failed check is not thrown
VerifyIgnoringError(c) ==
    /\ pc[c] = "verify"
    /\ pc' = [pc EXCEPT ![c] = "persist"]
    /\ UNCHANGED <<transaction, data, rebroadcasts, result, network, landed,
                   cryptoPayment, meetings, built, timeouts, sent, expired, indexed, libVars>>

\* lines 85-105: the destination account is read and the four checks are made
Verify(c) ==
    /\ pc[c] = "verify"
    /\ IF verifyError(transaction[c]) # NoError
       THEN Return(c, ErrorMessage(verifyError(transaction[c])))
       ELSE pc' = [pc EXCEPT ![c] = "persist"] /\ UNCHANGED result
    /\ UNCHANGED <<transaction, data, rebroadcasts, network, landed,
                   cryptoPayment, meetings, built, timeouts, sent, expired, indexed, libVars>>

\* db.collection(...).doc(signature).set(document): create or overwrite
SetDoc(collection, key, document) ==
    [k \in DOMAIN collection \cup {key} |-> IF k = key THEN document ELSE collection[k]]

\* lines 107-113: the payment record is written under the signature
Persist(c) ==
    /\ pc[c] = "persist"
    /\ cryptoPayment' = SetDoc(cryptoPayment, SignatureOf(transaction[c]),
                               paymentRecord(transaction[c]))
    /\ pc' = [pc EXCEPT ![c] = "fulfill"]
    /\ UNCHANGED <<transaction, data, rebroadcasts, result, network, landed,
                   meetings, built, timeouts, sent, expired, indexed, libVars>>

\* generateMeet(data): the meeting runs from hours[0] for hours.length hours
\* (formatDateProps); signature and call are history, kept to state the claims
generateMeet(c, payload) ==
    [hours |-> Len(payload.hours), call |-> c, signature |-> SignatureOf(transaction[c]),
     created |-> TRUE]

\* lines 115-117: fulfilment, then the signature is returned
Fulfill(c) ==
    /\ pc[c] = "fulfill"
    /\ meetings' = Append(meetings, generateMeet(c, data[c]))
    /\ Return(c, Signature(SignatureOf(transaction[c])))
    /\ UNCHANGED <<transaction, data, rebroadcasts, network, landed, cryptoPayment, built,
                   timeouts, sent, expired, indexed, libVars>>

\* mutant: the failure of generateMeet reaches sendTransaction's catch, which
\* deletes the record and returns the message
FulfillFailedUnwinds(c) ==
    /\ pc[c] = "fulfill"
    /\ meetings' = Append(meetings, [generateMeet(c, data[c]) EXCEPT !.created = FALSE])
    /\ cryptoPayment' = [k \in DOMAIN cryptoPayment \ {SignatureOf(transaction[c])} |->
                            cryptoPayment[k]]
    /\ Return(c, ErrorMessage("Error creating Google Calendar event"))
    /\ UNCHANGED <<transaction, data, rebroadcasts, network, landed, built,
                   timeouts, sent, expired, indexed, libVars>>

\* lines 115-117 with googleMeet.ts 93-107: the calendar request or the mail
\* throws inside generateMeet, whose two catch blocks log and swallow it
FulfillFailed(c) ==
    /\ pc[c] = "fulfill"
    /\ meetings' = Append(meetings, [generateMeet(c, data[c]) EXCEPT !.created = FALSE])
    /\ Return(c, Signature(SignatureOf(transaction[c])))
    /\ UNCHANGED <<transaction, data, rebroadcasts, network, landed, cryptoPayment, built,
                   timeouts, sent, expired, indexed, libVars>>

\* the cluster executes a broadcast message whose blockhash is still valid
Land ==
    \E message \in network \ (landed \cup expired) :
        /\ landed' = landed \cup {message}
        /\ UNCHANGED <<pc, transaction, data, rebroadcasts, result, network,
                       cryptoPayment, meetings, built, timeouts, sent, expired, indexed, libVars>>

\* the blockhash of a broadcast message expires before the message landed
Expire ==
    \E message \in network \ (landed \cup expired) :
        /\ expired' = expired \cup {message}
        /\ UNCHANGED <<pc, transaction, data, rebroadcasts, result, network, landed,
                       cryptoPayment, meetings, built, timeouts, sent, indexed, libVars>>

\* the RPC node has the executed message at commitment "confirmed"
Index ==
    \E message \in landed \ indexed :
        /\ indexed' = indexed \cup {message}
        /\ UNCHANGED <<pc, transaction, data, rebroadcasts, result, network, landed,
                       cryptoPayment, meetings, built, timeouts, sent, expired, libVars>>

(***************************************************************************)
(* What a client can sign and submit: any transfer it likes. The mint key  *)
(* of a transfer that executed is the mint of its destination account.     *)
(***************************************************************************)
OTHER_REFERENCE == "OTHER_REFERENCE"

RawAmounts ==
    {0, 1, price.c + 1} \cup {n * price.c : n \in 1..MaxUnits}

ClientTransfer(amount, destination, reference) ==
    LET transfer == createTransferCheckedInstruction(
            "PAYER_USDC_ATA", getAccountInfo(destination).mint, destination, "PAYER",
            amount, USDC_DECIMALS)
    IN  IF reference = NoKey THEN transfer
        ELSE [transfer EXCEPT !.keys = Append(@, Meta(reference, FALSE, FALSE))]

ClientMessagesOf(amounts, destinations, references) ==
    {compileToV0Message("PAYER", "blockhash",
                        <<ClientTransfer(amount, destination, reference)>>, <<>>) :
        amount \in amounts, destination \in destinations, reference \in references}

\* every combination of amount, destination account and reference tag
ClientMessages ==
    ClientMessagesOf(RawAmounts, TokenAccounts, {PAYMENT_REFERENCE, OTHER_REFERENCE, NoKey})

\* the transfers to the merchant's account that concurrent calls carry
MerchantMessages ==
    ClientMessagesOf({price.c, price.c + 1}, {USDC_TOKEN_ACCOUNT}, {PAYMENT_REFERENCE})

\* the transfers a call that sits in the confirmation loop carries
SubmitMessages ==
    ClientMessagesOf({price.c, price.c + 1}, {USDC_TOKEN_ACCOUNT},
                     {PAYMENT_REFERENCE, OTHER_REFERENCE})

(***************************************************************************)
(* What the RPC node and the aggregator can answer to createTransaction.   *)
(***************************************************************************)
Account(pubkey, isSigner, isWritable) ==
    [pubkey |-> pubkey, isSigner |-> isSigner, isWritable |-> isWritable]

SetupDescriptor(i) ==
    [programId |-> "ATA_PROGRAM",
     accounts |-> <<Account("PAYER", TRUE, TRUE), Account("PAYER_USDC_ATA", FALSE, TRUE),
                    Account(USDC_MINT, FALSE, FALSE)>>,
     data |-> [payload |-> "setup", n |-> i]]
SwapDescriptor ==
    [programId |-> "JUPITER",
     accounts |-> <<Account("PAYER", TRUE, FALSE), Account("PAYER_BONK_ATA", FALSE, TRUE),
                    Account("PAYER_USDC_ATA", FALSE, TRUE), Account("POOL", FALSE, TRUE),
                    Account(USDC_MINT, FALSE, FALSE),
                    Account(PAYMENT_REFERENCE, FALSE, FALSE)>>,
     data |-> [payload |-> "swap", n |-> 0]]
CleanupDescriptor ==
    [programId |-> TOKEN_PROGRAM_ID,
     accounts |-> <<Account("PAYER_WSOL", FALSE, TRUE), Account("PAYER", TRUE, TRUE)>>,
     data |-> [payload |-> "cleanup", n |-> 0]]
OtherDescriptor(i) ==
    [programId |-> "TIP_PROGRAM",
     accounts |-> <<Account("PAYER", TRUE, TRUE), Account("TIP_ACCOUNT", FALSE, TRUE)>>,
     data |-> [payload |-> "other", n |-> i]]

\* the address lookup tables a route may reference, and what they hold on chain
LookupTableKeyLists == {<<>>, <<"TABLE_A">>, <<"TABLE_A", "TABLE_B">>}
LookupTableState(key) ==
    IF key = "TABLE_A" THEN [addresses |-> <<"POOL", USDC_MINT>>]
    ELSE [addresses |-> <<"TIP_ACCOUNT", "PAYER_WSOL">>]

SwapResponses ==
    {[setupInstructions |-> [i \in 1..ns |-> SetupDescriptor(i)],
      swapInstruction |-> SwapDescriptor,
      cleanupInstruction |-> cleanup,
      otherInstructions |-> [i \in 1..no |-> OtherDescriptor(i)],
      addressLookupTableAddresses |-> tables] :
        ns \in 0..MaxBundle, no \in 0..MaxBundle,
        cleanup \in {Undefined, CleanupDescriptor}, tables \in LookupTableKeyLists}

RpcAnswer(simulateOk, unitsConsumed, priorityFeeOk, priorityFeeEstimate, tables, resolved) ==
    [simulateOk |-> simulateOk, unitsConsumed |-> unitsConsumed,
     priorityFeeOk |-> priorityFeeOk, priorityFeeEstimate |-> priorityFeeEstimate,
     blockhash |-> "blockhash",
     accountInfos |-> [i \in 1..Len(tables) |->
            IF i \in resolved THEN LookupTableState(tables[i]) ELSE Undefined]]

\* the simulation fails, the fee estimate fails, or both answer
RpcAnswers(tables) ==
    {RpcAnswer(FALSE, 0, TRUE, 0, tables, {}), RpcAnswer(TRUE, 0, FALSE, 0, tables, {})}
    \cup {RpcAnswer(TRUE, units, TRUE, fee, tables, resolved) :
            units \in {0, 200000}, fee \in {0, 7000},
            resolved \in SUBSET (1..Len(tables))}

\* the sender's settlement-token account as getAccount reads it
SenderAccounts ==
    {[found |-> FALSE, isInitialized |-> FALSE, isFrozen |-> FALSE, amount |-> 0]}
    \cup {[found |-> TRUE, isInitialized |-> i, isFrozen |-> z, amount |-> a] :
            i \in BOOLEAN, z \in BOOLEAN, a \in {price.c, MaxUnits * price.c}}

\* quantity strings: hours.length.toString() of the form, and what else a client
\* of the server action may send
Quantities ==
    {FormatRadix(DecChars, n) : n \in 0..(MaxUnits + 1)}
    \cup {<<"1", ".", "5">>, <<".", "5">>, <<"2", ".">>, <<>>, <<"a">>}

\* one call of the server action createTransaction
CreateTransaction(pubkey, quantity, currency, env) ==
    /\ built' = [quantity |-> quantity, currency |-> currency,
                 transaction |-> createTransaction(pubkey, quantity, currency, env)]
    /\ UNCHANGED <<pc, transaction, data, rebroadcasts, result, network, landed,
                   cryptoPayment, meetings, timeouts, sent, expired, indexed, libVars>>

\* handleSolanaPayment: the wallet signs what createTransaction returned and the
\* client submits it unmodified
SubmitBuilt(c, payload) ==
    /\ built # Undefined
    /\ built.transaction # Undefined
    /\ Broadcast(c, built.transaction, payload)

(***************************************************************************)
(* Specifications.                                                         *)
(***************************************************************************)
\* concurrent sendTransaction calls on transfers to the merchant's account
Next ==
    \/ \E c \in Calls, message \in MerchantMessages, payload \in Payloads :
            Broadcast(c, message, payload)
    \/ \E c \in Calls : Timeout(c)
    \/ \E c \in Calls : Rebroadcast(c)
    \/ \E c \in Calls : Confirmed(c)
    \/ \E c \in Calls : FetchTransaction(c)
    \/ \E c \in Calls : Verify(c)
    \/ \E c \in Calls : Persist(c)
    \/ \E c \in Calls : Fulfill(c)
    \/ Land
    \/ Index

Spec == Init /\ [][Next]_vars

\* the steps of one sendTransaction call after its first broadcast
CallStep(c) ==
    \/ Timeout(c)
    \/ Rebroadcast(c)
    \/ RebroadcastRejected(c)
    \/ Confirmed(c)
    \/ ConfirmationExpired(c)
    \/ FetchTransaction(c)
    \/ FetchNotFound(c)
    \/ FetchRetry(c)
    \/ Verify(c)
    \/ Persist(c)
    \/ Fulfill(c)
    \/ FulfillFailed(c)

\* what the cluster and the RPC node do on their own
Cluster ==
    \/ Land
    \/ Expire
    \/ Index

\* the rest of one sendTransaction call after its first broadcast
Pipeline(c) ==
    \/ CallStep(c)
    \/ Cluster

\* one sendTransaction call on any transfer a client can sign
NextVerify ==
    \/ \E message \in ClientMessages, payload \in Payloads :
            Broadcast(1, message, payload)
    \/ Pipeline(1)

SpecVerify == Init /\ [][NextVerify]_vars

\* createTransaction, then sendTransaction on its result
NextBuild ==
    \/ /\ built = Undefined
       /\ \E quantity \in Quantities, account \in SenderAccounts,
             rpc \in RpcAnswers(<<>>) :
            CreateTransaction("PAYER", quantity, USDC_MINT,
                [senderAccount |-> account, rpc |-> rpc])
    \/ /\ built = Undefined
       /\ \E quantity \in Quantities, account \in SenderAccounts, jup \in SwapResponses :
          \E rpc \in RpcAnswers(jup.addressLookupTableAddresses) :
            CreateTransaction("PAYER", quantity, BONK_MINT,
                [senderAccount |-> account, rpc |-> rpc, jup |-> jup,
                 tokenInfoOk |-> TRUE, jupOk |-> TRUE])
    \/ /\ built = Undefined
       /\ \E quantity \in Quantities, account \in SenderAccounts,
             tokenInfoOk \in BOOLEAN :
            CreateTransaction("PAYER", quantity, BONK_MINT,
                [senderAccount |-> account, tokenInfoOk |-> tokenInfoOk, jupOk |-> FALSE])
    \/ \E payload \in Payloads : SubmitBuilt(1, payload)
    \/ Pipeline(1)

SpecBuild == Init /\ [][NextBuild]_vars

\* one sendTransaction call that may be cut off in its confirmation loop, on a
\* transfer to the merchant's account
NextSubmit ==
    \/ \E message \in SubmitMessages, payload \in Payloads :
            Broadcast(1, message, payload)
    \/ CallStep(1)
    \/ Abandon(1)
    \/ Cluster

\* the steps of call c outside the race of the confirmation loop: at most one of
\* them is enabled at a time, and the runtime takes it
Resumed(c) ==
    \/ Rebroadcast(c)
    \/ RebroadcastRejected(c)
    \/ FetchTransaction(c)
    \/ FetchNotFound(c)
    \/ FetchRetry(c)
    \/ Verify(c)
    \/ Persist(c)
    \/ Fulfill(c)
    \/ FulfillFailed(c)

\* the runtime resumes every await that can resume; a settled confirmation
\* promise wins the next race (SF, the loop passes through the resend in
\* between); the cluster ends a broadcast message's wait by executing it or by
\* letting its blockhash expire, and nothing makes the RPC node index it
SubmitFairness ==
    /\ WF_vars(Resumed(1))
    /\ SF_vars(Confirmed(1) \/ ConfirmationExpired(1))
    /\ WF_vars(Land \/ Expire)

SpecSubmit == Init /\ [][NextSubmit]_vars /\ SubmitFairness

(***************************************************************************)
(* Vocabulary of the properties: the facts of a submitted transfer, read   *)
(* off the message itself.                                                 *)
(***************************************************************************)
LastOf(message) == message.compiledInstructions[Len(message.compiledInstructions)]

KeyOf(message, n) ==
    LET ix == LastOf(message)
    IN  IF n \in 1..Len(ix.accountKeyIndexes)
           /\ ix.accountKeyIndexes[n] \in 1..Len(message.staticAccountKeys)
        THEN message.staticAccountKeys[ix.accountKeyIndexes[n]]
        ELSE NoKey

IsTransfer(message) ==
    /\ Len(message.compiledInstructions) > 0
    /\ "amount" \in DOMAIN LastOf(message).data

RawAmount(message) == LastOf(message).data.amount
UnitPriceBaseUnits == 50 * 1000000

ReferenceOk(message) == KeyOf(message, 5) = PAYMENT_REFERENCE
DestinationOwnerOk(message) ==
    /\ KeyOf(message, 3) \in TokenAccounts
    /\ getAccountInfo(KeyOf(message, 3)).owner = RIKI_PUBKEY
DestinationMintOk(message) ==
    /\ KeyOf(message, 3) \in TokenAccounts
    /\ getAccountInfo(KeyOf(message, 3)).mint = USDC_MINT
AmountMultipleOk(message) == RawAmount(message) % UnitPriceBaseUnits = 0

AllChecksPass(message) ==
    /\ IsTransfer(message)
    /\ AmountMultipleOk(message)
    /\ ReferenceOk(message)
    /\ DestinationOwnerOk(message)
    /\ DestinationMintOk(message)

\* call c got past the verifier / call c returned an error message
Accepted(c) ==
    \/ pc[c] \in {"persist", "fulfill"}
    \/ pc[c] = "done" /\ result[c] = Signature(SignatureOf(transaction[c]))
Rejected(c) == pc[c] = "done" /\ "message" \in DOMAIN result[c]

\* call c ended with the error of an expired blockhash
EndedExpired(c) ==
    /\ pc[c] = "done"
    /\ result[c] \in {ErrorMessage(BlockhashNotFound), ErrorMessage(BlockheightExceeded)}

\* the verifier gave its verdict on the call's transaction
Decided(c) == Accepted(c) \/ (Rejected(c) /\ ~EndedExpired(c))

MessageOf(sig) == sig.signatureOf
Fulfillments(sig) == {i \in 1..Len(meetings) : meetings[i].signature = sig}

(***************************************************************************)
(* Properties.                                                             *)
(***************************************************************************)
\* C1: across any interleaving of sendTransaction calls, also calls that carry the
\* same signed transaction, generateMeet is invoked at most once per signature.
\* The code writes the record without reading it first, so this fails.
C1_AtMostOneFulfillmentPerSignature ==
    \A i, j \in 1..Len(meetings) :
        meetings[i].signature = meetings[j].signature => i = j

\* C2: the payment record is written and generateMeet is invoked only for a
\* transaction that was confirmed and passes the four checks (amount multiple,
\* reference tag, destination owner, destination mint), the record is there before
\* generateMeet is invoked, and a call whose transaction fails a check returns an
\* error with nothing written and nothing fulfilled for that signature.
C2_RecordAndFulfillOnlyAfterVerification ==
    /\ \A sig \in DOMAIN cryptoPayment :
            MessageOf(sig) \in landed /\ AllChecksPass(MessageOf(sig))
    /\ \A i \in 1..Len(meetings) :
            /\ meetings[i].signature \in DOMAIN cryptoPayment
            /\ MessageOf(meetings[i].signature) \in landed
            /\ AllChecksPass(MessageOf(meetings[i].signature))
    /\ \A c \in Calls :
            /\ pc[c] = "fulfill" => SignatureOf(transaction[c]) \in DOMAIN cryptoPayment
            /\ pc[c] \in {"persist", "fulfill"} =>
                    transaction[c] \in landed /\ AllChecksPass(transaction[c])
            /\ pc[c] \in {"verify", "persist", "fulfill", "done"}
                    /\ ~AllChecksPass(transaction[c]) =>
                    /\ pc[c] \in {"verify", "done"}
                    /\ pc[c] = "done" => Rejected(c)
                    /\ SignatureOf(transaction[c]) \notin DOMAIN cryptoPayment
                    /\ Fulfillments(SignatureOf(transaction[c])) = {}

\* C2 witness: a call on a transfer that passes every check has written the record,
\* fulfilled and returned the signature.
C2_Witness ==
    \E c \in Calls :
        /\ pc[c] = "done" /\ Accepted(c)
        /\ SignatureOf(transaction[c]) \in DOMAIN cryptoPayment
        /\ Fulfillments(SignatureOf(transaction[c])) # {}

\* C3: the hours booked by generateMeet equal the verified quantity
\* rawAmount / unitPriceBaseUnits of the transaction, never the quantity of the
\* client's booking payload. The code books data.hours.length hours, so this fails.
C3_HoursBookedEqualVerifiedQuantity ==
    \A i \in 1..Len(meetings) :
        meetings[i].hours * UnitPriceBaseUnits = RawAmount(MessageOf(meetings[i].signature))

\* C4: with valid reference tag, destination owner and destination mint, the
\* verifier accepts the raw amount N * unitPriceBaseUnits for every positive integer
\* N with verified quantity exactly N, and rejects every raw amount that is not an
\* exact multiple of unitPriceBaseUnits.
C4_AcceptsExactMultiplesOnly ==
    \A c \in Calls :
        LET message == transaction[c]
        IN  (/\ Decided(c)
             /\ ReferenceOk(message)
             /\ DestinationOwnerOk(message)
             /\ DestinationMintOk(message)) =>
            /\ \A N \in 1..MaxUnits :
                    RawAmount(message) = N * UnitPriceBaseUnits =>
                        /\ Accepted(c)
                        /\ quotientOf(payInstructionOf(message)).whole = N
                        /\ quotientOf(payInstructionOf(message)).rem = 0
            /\ RawAmount(message) % UnitPriceBaseUnits # 0 =>
                    /\ Rejected(c)
                    /\ result[c] = ErrorMessage("amount not transferred")

\* C4 witness: a transfer of 2 units was accepted, and one of a unit plus one base
\* unit is what a decided call carries.
C4_Witness ==
    \E c \in Calls :
        /\ Accepted(c)
        /\ AllChecksPass(transaction[c])
        /\ RawAmount(transaction[c]) = MaxUnits * UnitPriceBaseUnits

\* C5: a transaction whose fifth account key is not PAYMENT_REFERENCE is rejected
\* even when amount, destination owner and destination mint are valid; no record
\* is written and nothing is fulfilled.
C5_BadReferenceRejected ==
    \A c \in Calls :
        (/\ pc[c] \in {"persist", "fulfill", "done"}
         /\ IsTransfer(transaction[c])
         /\ ~ReferenceOk(transaction[c])) =>
            /\ Rejected(c)
            /\ SignatureOf(transaction[c]) \notin DOMAIN cryptoPayment
            /\ Fulfillments(SignatureOf(transaction[c])) = {}

\* C5 witness: a transfer with another reference key and everything else valid was
\* rejected for its reference.
C5_Witness ==
    \E c \in Calls :
        /\ Rejected(c)
        /\ KeyOf(transaction[c], 5) = OTHER_REFERENCE
        /\ AmountMultipleOk(transaction[c]) /\ RawAmount(transaction[c]) > 0
        /\ DestinationOwnerOk(transaction[c])
        /\ DestinationMintOk(transaction[c])
        /\ result[c] = ErrorMessage("wrong app reference")

\* C6: a transaction whose destination token account holds another mint than USDC
\* is rejected even when the amount is an exact price multiple and the account's
\* owner is the merchant key.
C6_WrongMintRejected ==
    \A c \in Calls :
        (/\ pc[c] \in {"persist", "fulfill", "done"}
         /\ IsTransfer(transaction[c])
         /\ ~DestinationMintOk(transaction[c])) =>
            /\ Rejected(c)
            /\ SignatureOf(transaction[c]) \notin DOMAIN cryptoPayment
            /\ Fulfillments(SignatureOf(transaction[c])) = {}

\* C6 witness: a transfer of an exact multiple, with the reference tag, to an
\* account of the merchant that holds another mint was rejected.
C6_Witness ==
    \E c \in Calls :
        /\ Rejected(c)
        /\ ReferenceOk(transaction[c])
        /\ AmountMultipleOk(transaction[c]) /\ RawAmount(transaction[c]) > 0
        /\ DestinationOwnerOk(transaction[c])
        /\ KeyOf(transaction[c], 3) = "RIKI_BONK_ACCOUNT"

\* the four checks in the order the verifier is specified to make them
CheckOrder == <<"reference", "owner", "mint", "amount">>
Violates(message, check) ==
    IF check = "reference" THEN ~ReferenceOk(message)
    ELSE IF check = "owner" THEN ~DestinationOwnerOk(message)
    ELSE IF check = "mint" THEN ~DestinationMintOk(message)
    ELSE ~AmountMultipleOk(message)
FirstViolation(message) ==
    CheckOrder[CHOOSE i \in 1..Len(CheckOrder) :
        /\ Violates(message, CheckOrder[i])
        /\ \A j \in 1..(i - 1) : ~Violates(message, CheckOrder[j])]

\* C7: the checks are made in the order reference tag, destination owner,
\* destination mint, amount multiple; the error reported is that of the earliest
\* violated check in that order, and each of the four failures has an error of its
\* own. The code checks the amount first and reports "wrong seller" for the owner
\* and for the mint, so this fails.
C7_EarliestViolationReportedDistinctly ==
    \A c \in Calls :
        (/\ Decided(c)
         /\ IsTransfer(transaction[c])
         /\ KeyOf(transaction[c], 5) # NoKey
         /\ \E i \in 1..Len(CheckOrder) : Violates(transaction[c], CheckOrder[i])) =>
            /\ result[c] = ErrorMessage(checkMessage(FirstViolation(transaction[c])))
            /\ \A i \in 1..Len(CheckOrder) :
                    CheckOrder[i] # FirstViolation(transaction[c]) =>
                        checkMessage(CheckOrder[i])
                            # checkMessage(FirstViolation(transaction[c]))

\* the quantity string of the positive integer n, as hours.length.toString() gives it
IsQuantity(quantity, n) == n \in 1..9 /\ quantity = <<DecChars[n + 1]>>

HasBuilt == built # Undefined /\ built.transaction # Undefined

\* C8: for every positive integer quantity Q, the transaction createTransaction
\* returns for a settlement-token payment of Q units, submitted unmodified, passes
\* every verifier check with verified quantity exactly Q; for Q = 2 the raw transfer
\* amount is 100000000.
C8_BuildThenVerifyRoundTrip ==
    \A c \in Calls, n \in 1..9 :
        (/\ HasBuilt
         /\ built.currency = USDC_MINT
         /\ IsQuantity(built.quantity, n)
         /\ transaction[c] = built.transaction
         /\ Decided(c)) =>
            /\ Accepted(c)
            /\ AllChecksPass(transaction[c])
            /\ quotientOf(payInstructionOf(transaction[c])).whole = n
            /\ quotientOf(payInstructionOf(transaction[c])).rem = 0
            /\ n = 2 => RawAmount(transaction[c]) = 100000000

\* C8 witness: the transaction built for 2 units was submitted, verified and
\* fulfilled.
C8_Witness ==
    \E c \in Calls :
        /\ HasBuilt
        /\ built.currency = USDC_MINT
        /\ IsQuantity(built.quantity, 2)
        /\ transaction[c] = built.transaction
        /\ pc[c] = "done" /\ Accepted(c)

\* C9: in every transaction createTransaction returns, the last compiled
\* instruction is the settlement transfer of createPayInstruction, behind the two
\* compute-budget instructions and any number of setup, swap, cleanup and other
\* instructions of the aggregator.
C9_SettlementTransferIsLast ==
    HasBuilt =>
        LET message == built.transaction
            last == LastOf(message)
        IN  /\ Len(message.compiledInstructions) >= 3
            /\ "units" \in DOMAIN message.compiledInstructions[1].data
            /\ "microLamports" \in DOMAIN message.compiledInstructions[2].data
            /\ last.data = [instruction |-> 12, decimals |-> 6,
                            amount |-> BigIntOf(composeAmount(built.quantity))]
            /\ message.staticAccountKeys[last.programIdIndex] = TOKEN_PROGRAM_ID
            /\ Len(last.accountKeyIndexes) = 5
            /\ KeyOf(message, 1) = "PAYER_USDC_ATA"
            /\ KeyOf(message, 3) = USDC_TOKEN_ACCOUNT
            /\ KeyOf(message, 4) = "PAYER"
            /\ KeyOf(message, 5) = PAYMENT_REFERENCE

\* C9 witness: a swap route with setup, swap, cleanup and other instructions was
\* built: two compute-budget instructions, the bundle, then the transfer.
C9_Witness ==
    /\ HasBuilt
    /\ built.currency = BONK_MINT
    /\ Len(built.transaction.compiledInstructions) = 2 + (MaxBundle + 1 + 1 + MaxBundle) + 1
    /\ IsTransfer(built.transaction)

\* C10: for a settlement-currency payment of the positive integer quantity Q, the
\* raw amount of the settlement transfer is exactly 50 * Q * 10^6.
C10_RawAmountExact ==
    \A n \in 1..9 :
        (/\ HasBuilt
         /\ built.currency = USDC_MINT
         /\ IsQuantity(built.quantity, n)) =>
            /\ IsTransfer(built.transaction)
            /\ RawAmount(built.transaction) = 50 * n * 1000000

\* C10 witness: the transaction for the largest affordable quantity was built.
C10_Witness ==
    /\ HasBuilt
    /\ built.currency = USDC_MINT
    /\ IsQuantity(built.quantity, MaxUnits)
    /\ RawAmount(built.transaction) = 50 * MaxUnits * 1000000

(***************************************************************************)
(* The confirmation loop, the fetch and the fulfilment of one call.        *)
(***************************************************************************)
InLoop(c) == pc[c] \in {"confirm", "resend"}
Fetching(c) == pc[c] \in {"fetch", "fetchDelay"}
Abandoned(c) == pc[c] = "abandoned"

\* the loop of call c ended because the confirmation reported the transaction
LeftLoopConfirmed(c) ==
    /\ pc[c] \in {"fetch", "fetchDelay", "verify", "persist", "fulfill", "done"}
    /\ transaction[c] \in landed

\* C11: when the confirmation stays out for k consecutive 2-second timeouts and then
\* reports the transaction, the loop has rebroadcast exactly k times, each time the
\* bytes of the initial broadcast, and a signature that is returned is the one of
\* the initial broadcast.
C11_OneIdenticalRebroadcastPerTimeout ==
    \A c \in Calls :
        LeftLoopConfirmed(c) =>
            /\ rebroadcasts[c] = timeouts[c]
            /\ Len(sent[c]) = 1 + timeouts[c]
            /\ \A i \in 1..Len(sent[c]) : sent[c][i] = sent[c][1]
            /\ (pc[c] = "done" /\ "signature" \in DOMAIN result[c]) =>
                    result[c].signature = SignatureOf(sent[c][1])

\* C11 witness: two timeouts, then the confirmation; the call rebroadcast twice and
\* returned the signature of its first broadcast.
C11_Witness ==
    /\ pc[1] = "done"
    /\ timeouts[1] = 2
    /\ rebroadcasts[1] = 2
    /\ sent[1] = <<transaction[1], transaction[1], transaction[1]>>
    /\ result[1] = Signature(SignatureOf(sent[1][1]))

\* the loop of call c is left for the verification, on a confirmed transaction
ConfirmedExit(c) ==
    /\ pc'[c] = "fetch"
    /\ transaction[c] \in landed
    /\ UNCHANGED <<cryptoPayment, meetings, result>>

\* the loop of call c is left with an error, on an expired transaction, and
\* neither a record nor a fulfilment is made
ExpiredExit(c) ==
    /\ pc'[c] = "done"
    /\ transaction[c] \in expired
    /\ "message" \in DOMAIN result'[c]
    /\ UNCHANGED <<cryptoPayment, meetings>>

LoopExit(c) ==
    (InLoop(c) /\ ~InLoop(c)' /\ ~Abandoned(c)') => (ConfirmedExit(c) \/ ExpiredExit(c))

C13_AbandonedPaymentVerifiedFromSignature ==
    (/\ Abandoned(1)
     /\ transaction[1] \in indexed
     /\ AllChecksPass(transaction[1]))
        ~> (SignatureOf(transaction[1]) \in DOMAIN cryptoPayment)

\* C14: a fetch whose transaction never becomes available ends (with
\* TransactionNotFound) after a bounded number of attempts.
C14_FetchEndsWhenNeverAvailable ==
    Fetching(1) ~> (~Fetching(1) \/ transaction[1] \in indexed)

\* C15: when generateMeet fails, the payment record of the signature stays as it
\* was written and sendTransaction returns the signature.
C15_FulfillmentFailureKeepsPayment ==
    [][\A c \in Calls :
        (/\ pc[c] = "fulfill"
         /\ Len(meetings') = Len(meetings) + 1
         /\ meetings'[Len(meetings')].call = c
         /\ ~meetings'[Len(meetings')].created) =>
            /\ SignatureOf(transaction[c]) \in DOMAIN cryptoPayment
            /\ cryptoPayment' = cryptoPayment
            /\ cryptoPayment[SignatureOf(transaction[c])] = paymentRecord(transaction[c])
            /\ pc'[c] = "done"
            /\ result'[c] = Signature(SignatureOf(transaction[c]))]_vars

\* C15 witness: generateMeet failed, the record is there and the call returned the
\* signature.
C15_Witness ==
    /\ pc[1] = "done"
    /\ Len(meetings) = 1
    /\ ~meetings[1].created
    /\ result[1] = Signature(SignatureOf(transaction[1]))
    /\ cryptoPayment[SignatureOf(transaction[1])] = paymentRecord(transaction[1])

(***************************************************************************)
(* HTTP requests made with ky: getJupQuote (src/lib/jup.ts) and            *)
(* getPriorityFee (src/lib/solana.ts). ky sends the request; on an error   *)
(* response it retries only when the request's method is one of            *)
(* retry.methods, the retries made stay within retry.limit and the status  *)
(* is one of retry.statusCodes, after retry.delay(attemptCount) ms.        *)
(***************************************************************************)
\* retry option of the ky.get call of getJupQuote
getJupQuoteRetry ==
    [limit |-> 5,
     statusCodes |-> {408, 413, 429, 500, 502, 503, 504, 422},
     methods |-> {"post"}]

\* retry option of the ky.post call of getPriorityFee
getPriorityFeeRetry ==
    [limit |-> 5,
     methods |-> {"post"},
     statusCodes |-> {408, 413, 429, 500, 502, 503, 504}]

\* delay: (attemptCount) => 0.3 * 2 ** (attemptCount - 1) * 1000
retryDelay(attemptCount) == 3 * Pow(2, attemptCount - 1) * 100

\* ky: a request is passed to the retry loop only if its method is listed
kyIsRetriableMethod(request) == request.method \in request.retry.methods

\* ky: the delay before the retry numbered retryCount, 0 for no retry
kyCalculateRetryDelay(request, retryCount, status) ==
    IF retryCount > request.retry.limit THEN 0
    ELSE IF status \notin request.retry.statusCodes THEN 0
    ELSE retryDelay(retryCount)

\* the request as ky holds it when the first fetch is sent
kyRequest(fn, method, retry, params) ==
    [fn |-> fn, method |-> method, retry |-> retry, params |-> params,
     pc |-> "pending", fetches |-> 1, retryCount |-> 0, delays |-> <<>>,
     outcome |-> "none", status |-> 0]

\* the mints a visitor can pay with, and the quantities a quote is asked for
SOL_MINT == "SOL_MINT"
QuoteMints == {SOL_MINT, BONK_MINT, "MSOL_MINT"}
QuoteQuantities == {BigNumberOf(n) : n \in 1..(MaxUnits + 1)}

\* the answers of a server: success, the statuses of the retry lists, and others
HttpStatuses == {200, 400, 404, 408, 413, 422, 429, 500, 502, 503, 504}

\* getJupQuote(inputMint, quantity): lines 26-46, the GET is sent
GetJupQuote(inputMint, quantity) ==
    /\ http = Undefined
    /\ LET amount == BigNumberToString(
               BigNumberTimes(BigNumberTimes(BigNumberOf(USDC_AMOUNT), quantity),
                              BigNumberOf(Pow(TEN, USDC_DECIMALS))))
       IN  http' = kyRequest("getJupQuote", "get", getJupQuoteRetry,
                             [inputMint |-> inputMint, outputMint |-> USDC_MINT,
                              amount |-> amount, swapMode |-> "ExactOut"])
    /\ UNCHANGED besidesHttp

\* getPriorityFee(priorityLevel, transaction): lines 294-313, the POST is sent
GetPriorityFee(priorityLevel) ==
    /\ http = Undefined
    /\ http' = kyRequest("getPriorityFee", "post", getPriorityFeeRetry,
                         [method |-> "getPriorityFeeEstimate",
                          priorityLevel |-> priorityLevel])
    /\ UNCHANGED besidesHttp

\* the server answers the pending request; ky resolves, schedules a retry or
\* rejects with an HTTPError
HttpRespond(status) ==
    /\ http # Undefined
    /\ http.pc = "pending"
    /\ LET retryCount == http.retryCount + 1
           ms == IF kyIsRetriableMethod(http)
                 THEN kyCalculateRetryDelay(http, retryCount, status)
                 ELSE 0
       IN  http' =
             IF status = 200
             THEN [http EXCEPT !.pc = "done", !.outcome = "json", !.status = status]
             ELSE IF ms # 0
             THEN [http EXCEPT !.pc = "delay", !.retryCount = retryCount,
                               !.delays = Append(@, ms), !.status = status]
             ELSE [http EXCEPT !.pc = "done", !.outcome = "HTTPError", !.status = status]
    /\ UNCHANGED besidesHttp

\* the retry delay is over, the same request is sent again
HttpRetry ==
    /\ http # Undefined
    /\ http.pc = "delay"
    /\ http' = [http EXCEPT !.pc = "pending", !.fetches = @ + 1]
    /\ UNCHANGED besidesHttp

NextHttp ==
    \/ \E inputMint \in QuoteMints, quantity \in QuoteQuantities :
            GetJupQuote(inputMint, quantity)
    \/ GetPriorityFee("High")
    \/ \E status \in HttpStatuses : HttpRespond(status)
    \/ HttpRetry

SpecHttp == Init /\ [][NextHttp]_vars

\* the allow-list of transient statuses and the cap of the claim
TransientStatuses == {408, 413, 429, 500, 502, 503, 504, 422}
RetryCap == 5

\* C16: an answer to the quote request with a status of the transient allow-list is
\* followed by a retry after 300 ms * 2^(retries made), as long as fewer than 5
\* retries were made; any other failure ends the quote at once with the error.
C16_QuoteRetriedOnTransientStatus ==
    [][(/\ http # Undefined
        /\ http.fn = "getJupQuote"
        /\ http.pc = "pending"
        /\ http'.status # 200) =>
            IF http'.status \in TransientStatuses /\ http.retryCount < RetryCap
            THEN /\ http'.pc = "delay"
                 /\ http'.delays = Append(http.delays, 300 * Pow(2, http.retryCount))
            ELSE /\ http'.pc = "done"
                 /\ http'.outcome = "HTTPError"]_vars

(***************************************************************************)
(* createTransaction on its own, with what the RPC node and the aggregator *)
(* answered kept next to what it returned.                                 *)
(***************************************************************************)
AssembleTransaction(pubkey, quantity, currency, env) ==
    /\ built = Undefined
    /\ built' = [pubkey |-> pubkey, quantity |-> quantity, currency |-> currency,
                 env |-> env,
                 transaction |-> createTransaction(pubkey, quantity, currency, env)]
    /\ UNCHANGED <<pc, transaction, data, rebroadcasts, result, network, landed,
                   cryptoPayment, meetings, timeouts, sent, expired, indexed, libVars>>

\* the requests assembled: the quantities the form can send, and a sender account
\* that holds enough, initialized or not, frozen or not
AssembleQuantities == {FormatRadix(DecChars, n) : n \in 1..MaxUnits}
AssembleAccounts == {account \in SenderAccounts : account.amount = MaxUnits * price.c}

NextAssemble ==
    \/ \E quantity \in AssembleQuantities, account \in AssembleAccounts,
          rpc \in RpcAnswers(<<>>) :
            AssembleTransaction("PAYER", quantity, USDC_MINT,
                [senderAccount |-> account, rpc |-> rpc])
    \/ \E quantity \in AssembleQuantities, account \in AssembleAccounts,
          jup \in SwapResponses :
       \E rpc \in RpcAnswers(jup.addressLookupTableAddresses) :
            AssembleTransaction("PAYER", quantity, BONK_MINT,
                [senderAccount |-> account, rpc |-> rpc, jup |-> jup,
                 tokenInfoOk |-> TRUE, jupOk |-> TRUE])

SpecAssemble == Init /\ [][NextAssemble]_vars

HasAssembled == built # Undefined /\ "env" \in DOMAIN built
AssembledSwap == HasAssembled /\ "jup" \in DOMAIN built.env

FeeUnavailable(rpc) == ~rpc.priorityFeeOk \/ rpc.priorityFeeEstimate = 0

\* the same request, had the fee estimation answered with an estimate
WithFee(env) ==
    [env EXCEPT !.rpc.priorityFeeOk = TRUE, !.rpc.priorityFeeEstimate = 7000]

\* C18: when the priority-fee estimate is unavailable, createTransaction returns a
\* transaction wherever it would have returned one with an estimate, and the
\* compute-unit price of that transaction is 5000 micro-lamports.
C18_FeeFallbackNeverFailsBuild ==
    (/\ HasAssembled
     /\ FeeUnavailable(built.env.rpc)
     /\ createTransaction(built.pubkey, built.quantity, built.currency,
                          WithFee(built.env)) # Undefined) =>
        /\ built.transaction # Undefined
        /\ built.transaction.compiledInstructions[2].data.microLamports = 5000

\* the keys of the route's lookup tables whose account resolved, in key order
ResolvedKeys(keys, accountInfos) ==
    SelectSeq(keys, LAMBDA k : \E i \in 1..Len(keys) :
                                  keys[i] = k /\ accountInfos[i] # Undefined)

\* the same request, had every lookup table resolved
WithAllTables(env) ==
    [env EXCEPT !.rpc.accountInfos =
        [i \in 1..Len(env.jup.addressLookupTableAddresses) |->
            LookupTableState(env.jup.addressLookupTableAddresses[i])]]

LAMPORTS_PER_SOL == 1000000000
SYSTEM_PROGRAM_ID == "SYSTEM_PROGRAM_ID"

\* amount.decimalPlaces(): the decimal places left without trailing zeros
RECURSIVE decimalPlaces(_)
decimalPlaces(a) ==
    IF a.dp > 0 /\ a.c % 10 = 0
    THEN decimalPlaces([a EXCEPT !.c = a.c \div 10, !.dp = a.dp - 1])
    ELSE a.dp

\* a.times(10^e).integerValue(BigNumber.ROUND_FLOOR), the decimal point moved
\* before the multiplication so that the digits stay within 32 bits
BigNumberTimesPowFloor(a, e) ==
    IF a.dp <= e
    THEN BigNumberOf(a.c * Pow(10, e - a.dp))
    ELSE BigNumberOf(a.c \div Pow(10, a.dp - e))

\* SystemProgram.transfer({fromPubkey, toPubkey, lamports})
SystemTransfer == 2
SystemProgramTransfer(fromPubkey, toPubkey, lamports) ==
    [programId |-> SYSTEM_PROGRAM_ID,
     keys |-> <<Meta(fromPubkey, TRUE, TRUE), Meta(toPubkey, FALSE, TRUE)>>,
     data |-> [instruction |-> SystemTransfer, lamports |-> lamports]]

Thrown(message) == [error |-> message]
Returned(instruction) == [instruction |-> instruction]

\* mutant: a transfer of the whole balance is refused
createSystemInstructionBelowBalance(recipient, amount, sender, senderInfo) ==
    IF senderInfo.owner # SYSTEM_PROGRAM_ID THEN Thrown("sender owner invalid")
    ELSE IF senderInfo.executable THEN Thrown("sender executable")
    ELSE IF decimalPlaces(amount) > 9 THEN Thrown("amount decimals invalid")
    ELSE LET lamports == BigNumberTimesPowFloor(amount, 9).c
         IN  IF lamports >= senderInfo.lamports THEN Thrown("insufficient funds")
             ELSE Returned(SystemProgramTransfer(sender, recipient, lamports))

\* createSystemInstruction for a finite, non-negative amount; LAMPORTS_PER_SOL is
\* 10^9
createSystemInstruction(recipient, amount, sender, senderInfo) ==
    IF senderInfo.owner # SYSTEM_PROGRAM_ID THEN Thrown("sender owner invalid")
    ELSE IF senderInfo.executable THEN Thrown("sender executable")
    ELSE IF decimalPlaces(amount) > 9 THEN Thrown("amount decimals invalid")
    ELSE LET lamports == BigNumberTimesPowFloor(amount, 9).c
         IN  IF lamports > senderInfo.lamports THEN Thrown("insufficient funds")
             ELSE Returned(SystemProgramTransfer(sender, recipient, lamports))

\* amounts in SOL as digits and decimal places: tenths from 0 up to MaxUnits
\* halves (1.0 is written 10 tenths), one lamport, 1.000000001, and amounts finer
\* than a lamport, one of them written with a trailing zero
SystemAmounts ==
    {[nan |-> FALSE, c |-> n, dp |-> 1] : n \in 0..(5 * MaxUnits)}
    \cup {[nan |-> FALSE, c |-> 1, dp |-> 0],
          [nan |-> FALSE, c |-> 1, dp |-> 9], [nan |-> FALSE, c |-> 1000000001, dp |-> 9],
          [nan |-> FALSE, c |-> 10, dp |-> 10], [nan |-> FALSE, c |-> 1, dp |-> 10],
          [nan |-> FALSE, c |-> 15, dp |-> 10], [nan |-> FALSE, c |-> 1000000001, dp |-> 10]}

\* the sender account as getAccountInfo reads it: balances of 0, 1 lamport, halves
\* of a SOL up to MaxUnits, and 1.000000001 SOL
SystemBalances ==
    {0, 1, LAMPORTS_PER_SOL + 1} \cup {n * (LAMPORTS_PER_SOL \div 2) : n \in 1..MaxUnits}
SenderInfos ==
    {[owner |-> owner, executable |-> executable, lamports |-> lamports] :
        owner \in {SYSTEM_PROGRAM_ID, TOKEN_PROGRAM_ID}, executable \in BOOLEAN,
        lamports \in SystemBalances}

\* one call of createSystemInstruction
CreateSystemInstruction(recipient, amount, sender, senderInfo) ==
    /\ systemTransfer' =
            [recipient |-> recipient, amount |-> amount, sender |-> sender,
             senderInfo |-> senderInfo,
             outcome |-> createSystemInstruction(recipient, amount, sender, senderInfo)]
    /\ UNCHANGED besidesSystem

NextSystem ==
    \E amount \in SystemAmounts, senderInfo \in SenderInfos :
        CreateSystemInstruction(RIKI_PUBKEY, amount, "PAYER", senderInfo)

SpecSystem == Init /\ [][NextSystem]_vars

\* the amount, times 10^9, is a whole number of lamports
AtMostNineDecimals(amount) ==
    amount.dp <= 9 \/ amount.c % Pow(10, amount.dp - 9) = 0

\* the lamports of an amount of at most 9 decimal places
LamportsOf(amount) ==
    IF amount.dp <= 9 THEN amount.c * Pow(10, 9 - amount.dp)
    ELSE amount.c \div Pow(10, amount.dp - 9)

\* C20: createSystemInstruction returns the transfer of the amount's lamports from
\* the sender to the recipient if and only if the sender account is owned by the
\* system program, is not executable, the amount has at most 9 decimal places and
\* its lamports do not exceed the balance (the whole balance is accepted);
\* otherwise it throws the error of the first of these conditions that fails, in
\* this order, and returns no instruction.
C20_SystemTransferPrechecks ==
    systemTransfer # Undefined =>
        LET info == systemTransfer.senderInfo
            amount == systemTransfer.amount
            outcome == systemTransfer.outcome
        IN  IF info.owner # SYSTEM_PROGRAM_ID
            THEN outcome = [error |-> "sender owner invalid"]
            ELSE IF info.executable
            THEN outcome = [error |-> "sender executable"]
            ELSE IF ~AtMostNineDecimals(amount)
            THEN outcome = [error |-> "amount decimals invalid"]
            ELSE IF LamportsOf(amount) > info.lamports
            THEN outcome = [error |-> "insufficient funds"]
            ELSE /\ DOMAIN outcome = {"instruction"}
                 /\ outcome.instruction.programId = SYSTEM_PROGRAM_ID
                 /\ outcome.instruction.data.lamports = LamportsOf(amount)
                 /\ outcome.instruction.keys[1].pubkey = systemTransfer.sender
                 /\ outcome.instruction.keys[2].pubkey = systemTransfer.recipient

\* C20 witness: the transfer of an amount equal to the whole balance was built.
C20_Witness ==
    /\ systemTransfer # Undefined
    /\ "instruction" \in DOMAIN systemTransfer.outcome
    /\ systemTransfer.senderInfo.lamports = LAMPORTS_PER_SOL
    /\ systemTransfer.outcome.instruction.data.lamports = LAMPORTS_PER_SOL

(***************************************************************************)
(* createTransaction step by step (src/actions/solana/createTransaction.ts)*)
(* with the requests it sends to the RPC node and to the aggregator kept   *)
(* in the order they were sent, and the error its catch block logged.      *)
(***************************************************************************)
\* mutant: the state of the sender's account is not looked at
senderAccountErrorIgnored(senderAccount) ==
    IF ~senderAccount.found THEN "TokenAccountNotFoundError" ELSE NoError

\* getAccount and the two checks behind it: the first error thrown, or none
senderAccountError(senderAccount) ==
    IF ~senderAccount.found THEN "TokenAccountNotFoundError"
    ELSE IF ~senderAccount.isInitialized THEN "sender not initialized"
    ELSE IF senderAccount.isFrozen THEN "sender frozen"
    ELSE NoError

\* mutant: a balance equal to the amount is refused
fundsErrorAtBalance(amount, senderAccount) ==
    IF ~BigIntOk(amount) THEN "SyntaxError"
    ELSE IF BigIntOf(amount) >= senderAccount.amount THEN "insufficient funds"
    ELSE NoError

\* the else branch of the currency test: BigInt(amount), then the balance
fundsError(amount, senderAccount) ==
    IF ~BigIntOk(amount) THEN "SyntaxError"
    ELSE IF BigIntOf(amount) > senderAccount.amount THEN "insufficient funds"
    ELSE NoError

\* the call goes on to its next await after sending a request
CreateGoto(request, next) ==
    create' = [create EXCEPT !.pc = next, !.requests = Append(@, request)]

\* the call ends in its catch block, after sending a request (or none: <<>>)
CreateCaught(requests, message) ==
    create' = [create EXCEPT !.pc = "done", !.requests = @ \o requests,
                             !.error = message]

\* createTransaction is called: the signer's key and its token address are derived
CreateStart(pubkey, quantity, currency, env) ==
    /\ create = Undefined
    /\ create' = [pc |-> "getAccount", pubkey |-> pubkey, quantity |-> quantity,
                  currency |-> currency, env |-> env, requests |-> <<>>,
                  error |-> NoError, returned |-> Undefined]
    /\ UNCHANGED besidesCreate

\* getAccount answers; the account checks, the amount, and on the settlement
\* currency the balance check and createPayInstruction
CreateGetAccount ==
    /\ create # Undefined /\ create.pc = "getAccount"
    /\ LET senderAccount == create.env.senderAccount
           amount == composeAmount(create.quantity)
       IN  IF senderAccountError(senderAccount) # NoError
           THEN CreateCaught(<<"getAccount">>, senderAccountError(senderAccount))
           ELSE IF create.currency # USDC_MINT
           THEN CreateGoto("getAccount", "getTokenInfo")
           ELSE IF fundsError(amount, senderAccount) # NoError
           THEN CreateCaught(<<"getAccount">>, fundsError(amount, senderAccount))
           ELSE CreateGoto("getAccount", "getAddressLookupTableAccounts")
    /\ UNCHANGED besidesCreate

\* getTokenInfo answers
CreateGetTokenInfo ==
    /\ create # Undefined /\ create.pc = "getTokenInfo"
    /\ IF ~create.env.tokenInfoOk
       THEN CreateCaught(<<"tokens/search">>, "HTTPError")
       ELSE CreateGoto("tokens/search", "getJupQuote")
    /\ UNCHANGED besidesCreate

\* getJupQuote answers
CreateGetJupQuote ==
    /\ create # Undefined /\ create.pc = "getJupQuote"
    /\ IF ~create.env.jupOk
       THEN CreateCaught(<<"quote">>, "HTTPError")
       ELSE CreateGoto("quote", "swap-instructions")
    /\ UNCHANGED besidesCreate

\* the swap-instructions request answers; createPayInstruction runs
CreateGetJupInstructions ==
    /\ create # Undefined /\ create.pc = "swap-instructions"
    /\ IF ~BigIntOk(composeAmount(create.quantity))
       THEN CreateCaught(<<"swap-instructions">>, "SyntaxError")
       ELSE CreateGoto("swap-instructions", "getAddressLookupTableAccounts")
    /\ UNCHANGED besidesCreate

\* getTransaction: the lookup tables are read, unless the list is empty
CreateGetAddressLookupTableAccounts ==
    /\ create # Undefined /\ create.pc = "getAddressLookupTableAccounts"
    /\ IF create.currency = USDC_MINT
          \/ create.env.jup.addressLookupTableAddresses = <<>>
       THEN create' = [create EXCEPT !.pc = "simulateTransaction"]
       ELSE CreateGoto("getMultipleAccountsInfo", "simulateTransaction")
    /\ UNCHANGED besidesCreate

\* getInstructions: the simulation answers
CreateSimulateTransaction ==
    /\ create # Undefined /\ create.pc = "simulateTransaction"
    /\ IF ~create.env.rpc.simulateOk
       THEN CreateCaught(<<"simulateTransaction">>, "RpcError")
       ELSE CreateGoto("simulateTransaction", "getPriorityFee")
    /\ UNCHANGED besidesCreate

\* getInstructions: the fee estimate answers
CreateGetPriorityFee ==
    /\ create # Undefined /\ create.pc = "getPriorityFee"
    /\ IF ~create.env.rpc.priorityFeeOk
       THEN CreateCaught(<<"getPriorityFeeEstimate">>, "HTTPError")
       ELSE CreateGoto("getPriorityFeeEstimate", "getLatestBlockhash")
    /\ UNCHANGED besidesCreate

\* getTransaction: the blockhash answers, the message is compiled and returned
CreateGetLatestBlockhash ==
    /\ create # Undefined /\ create.pc = "getLatestBlockhash"
    /\ LET signer == create.pubkey
           senderATA == getAssociatedTokenAddress(USDC_MINT_KEY, signer)
           swap == create.currency # USDC_MINT
           instructions == IF swap THEN getJupInstructions(create.env.jup) ELSE <<>>
           lookupTableAddresses ==
               IF swap THEN create.env.jup.addressLookupTableAddresses ELSE <<>>
           payInstruction ==
               createPayInstruction(composeAmount(create.quantity), signer, senderATA)
       IN  create' = [create EXCEPT
                !.pc = "done",
                !.requests = Append(@, "getLatestBlockhash"),
                !.returned = getTransaction(Append(instructions, payInstruction),
                                            signer, lookupTableAddresses,
                                            create.env.rpc)]
    /\ UNCHANGED besidesCreate

\* the requests: the quantities of the form and one more, every state of the
\* sender's account, and aggregator bundles that differ in their lookup tables
CreateQuantities == {FormatRadix(DecChars, n) : n \in 1..(MaxUnits + 1)}
CreateSwapResponses ==
    {jup \in SwapResponses :
        /\ jup.setupInstructions = <<>>
        /\ jup.otherInstructions = <<>>
        /\ jup.cleanupInstruction = Undefined}

NextCreate ==
    \/ \E quantity \in CreateQuantities, account \in SenderAccounts,
          rpc \in RpcAnswers(<<>>) :
            CreateStart("PAYER", quantity, USDC_MINT,
                [senderAccount |-> account, rpc |-> rpc])
    \/ \E quantity \in CreateQuantities, account \in SenderAccounts,
          jup \in CreateSwapResponses, tokenInfoOk \in BOOLEAN, jupOk \in BOOLEAN :
       \E rpc \in RpcAnswers(jup.addressLookupTableAddresses) :
            CreateStart("PAYER", quantity, BONK_MINT,
                [senderAccount |-> account, rpc |-> rpc, jup |-> jup,
                 tokenInfoOk |-> tokenInfoOk, jupOk |-> jupOk])
    \/ CreateGetAccount
    \/ CreateGetTokenInfo
    \/ CreateGetJupQuote
    \/ CreateGetJupInstructions
    \/ CreateGetAddressLookupTableAccounts
    \/ CreateSimulateTransaction
    \/ CreateGetPriorityFee
    \/ CreateGetLatestBlockhash

SpecCreate == Init /\ [][NextCreate]_vars

CreateEnded == create # Undefined /\ create.pc = "done"
AggregatorRequests == {"tokens/search", "quote", "swap-instructions"}
RequestsOf(call) == {call.requests[i] : i \in 1..Len(call.requests)}

\* C21: when the sender's settlement-token account is uninitialized or frozen,
\* createTransaction ends right after reading the account: it has sent no quote or
\* swap-instructions request (no aggregator request at all) and no simulation, and
\* it returns no transaction.
C21_AccountChecksBeforeAggregator ==
    (/\ create # Undefined
     /\ create.env.senderAccount.found
     /\ ~create.env.senderAccount.isInitialized \/ create.env.senderAccount.isFrozen) =>
        /\ create.pc \in {"getAccount", "done"}
        /\ RequestsOf(create) \cap (AggregatorRequests \cup {"simulateTransaction"}) = {}
        /\ create.returned = Undefined
        /\ create.pc = "done" =>
                /\ create.requests = <<"getAccount">>
                /\ create.error \in {"sender not initialized", "sender frozen"}

\* C21 witness: a swap payment from a frozen account ended after its getAccount
\* request with the error of the frozen sender.
C21_Witness ==
    /\ CreateEnded
    /\ create.currency = BONK_MINT
    /\ create.env.senderAccount.isInitialized /\ create.env.senderAccount.isFrozen
    /\ create.env.tokenInfoOk /\ create.env.jupOk /\ create.env.rpc.simulateOk
    /\ create.requests = <<"getAccount">>
    /\ create.error = "sender frozen"
    /\ create.returned = Undefined

\* the settlement-currency call whose sender account passed the account checks, and
\* the raw amount its quantity stands for
CreateSettlement ==
    /\ create # Undefined
    /\ create.currency = USDC_MINT
    /\ senderAccountError(create.env.senderAccount) = NoError
CreateRawAmount == ParseRadix(DecChars, create.quantity) * UnitPriceBaseUnits

Mints == {USDC_MINT, BONK_MINT, "GHOST_MINT"}

\* mutant: the supply is stored without its last digit
mintDocumentTruncated(mint, decodedMintData) ==
    [mint |-> mint,
     mintAuthorityOption |-> decodedMintData.mintAuthorityOption,
     mintAuthority |-> decodedMintData.mintAuthority,
     supply |-> FormatRadix(DecChars, decodedMintData.supply \div 10),
     decimals |-> decodedMintData.decimals,
     isInitialized |-> IF decodedMintData.isInitialized THEN 1 ELSE 0,
     freezeAuthorityOption |-> decodedMintData.freezeAuthorityOption,
     freezeAuthority |-> decodedMintData.freezeAuthority]

\* the document getMintData writes: the supply as a decimal string, the
\* initialized flag as 1 or 0
mintDocument(mint, decodedMintData) ==
    [mint |-> mint,
     mintAuthorityOption |-> decodedMintData.mintAuthorityOption,
     mintAuthority |-> decodedMintData.mintAuthority,
     supply |-> FormatRadix(DecChars, decodedMintData.supply),
     decimals |-> decodedMintData.decimals,
     isInitialized |-> IF decodedMintData.isInitialized THEN 1 ELSE 0,
     freezeAuthorityOption |-> decodedMintData.freezeAuthorityOption,
     freezeAuthority |-> decodedMintData.freezeAuthority]

\* what getMintData returns from a document: BigInt(supply), !!isInitialized
mintFromDocument(mintData) ==
    [mintAuthorityOption |-> mintData.mintAuthorityOption,
     mintAuthority |-> mintData.mintAuthority,
     supply |-> BigIntOf(mintData.supply),
     decimals |-> mintData.decimals,
     isInitialized |-> mintData.isInitialized # 0,
     freezeAuthorityOption |-> mintData.freezeAuthorityOption,
     freezeAuthority |-> mintData.freezeAuthority]

MintEnded(k) == mintCall[k] # Undefined /\ mintCall[k].pc = "done"
MintSucceeded(k) == MintEnded(k) /\ mintCall[k].returned # Undefined

\* getMintData(mintKey) is called; the calls for the same mint that had returned
\* their data by then are remembered
GetMintData(k, mintKey) ==
    /\ mintCall[k] = Undefined
    /\ mintCall' = [mintCall EXCEPT ![k] =
            [pc |-> "get", mint |-> mintKey, rpcCalls |-> 0,
             decodedMintData |-> Undefined, returned |-> Undefined,
             error |-> NoError,
             after |-> {j \in MintCalls : MintSucceeded(j) /\ mintCall[j].mint = mintKey}]]
    /\ UNCHANGED <<mintDocs, chainMint, mintsResult, besidesMint>>

\* the document read answers: a hit returns the document's fields
MintCacheGet(k) ==
    /\ mintCall[k] # Undefined /\ mintCall[k].pc = "get"
    /\ IF mintCall[k].mint \in DOMAIN mintDocs
       THEN mintCall' = [mintCall EXCEPT
                ![k].pc = "done",
                ![k].returned = mintFromDocument(mintDocs[mintCall[k].mint])]
       ELSE mintCall' = [mintCall EXCEPT ![k].pc = "getAccountInfo"]
    /\ UNCHANGED <<mintDocs, chainMint, mintsResult, besidesMint>>

\* getAccountInfo answers: no account throws, an account is decoded
MintGetAccountInfo(k) ==
    /\ mintCall[k] # Undefined /\ mintCall[k].pc = "getAccountInfo"
    /\ IF mintCall[k].mint \notin DOMAIN chainMint
       THEN mintCall' = [mintCall EXCEPT
                ![k].pc = "done", ![k].rpcCalls = @ + 1,
                ![k].error = "Failed to get program accounts"]
       ELSE mintCall' = [mintCall EXCEPT
                ![k].pc = "set", ![k].rpcCalls = @ + 1,
                ![k].decodedMintData = chainMint[mintCall[k].mint]]
    /\ UNCHANGED <<mintDocs, chainMint, mintsResult, besidesMint>>

\* the document write answers; the decoded data is returned
MintCacheSet(k) ==
    /\ mintCall[k] # Undefined /\ mintCall[k].pc = "set"
    /\ LET mint == mintCall[k].mint
           document == mintDocument(mint, mintCall[k].decodedMintData)
       IN  mintDocs' = [m \in DOMAIN mintDocs \cup {mint} |->
                            IF m = mint THEN document ELSE mintDocs[m]]
    /\ mintCall' = [mintCall EXCEPT
            ![k].pc = "done", ![k].returned = mintCall[k].decodedMintData]
    /\ UNCHANGED <<chainMint, mintsResult, besidesMint>>

\* the token program executes a MintTo of someone's on a mint that has a mint
\* authority: the supply in the mint account grows
ChainMintTo(mint) ==
    /\ mint \in DOMAIN chainMint
    /\ chainMint[mint].mintAuthorityOption = 1
    /\ chainMint[mint].supply < InitialChainMint[mint].supply + MaxMinted
    /\ chainMint' = [chainMint EXCEPT ![mint].supply = @ + 1]
    /\ UNCHANGED <<mintDocs, mintCall, mintsResult, besidesMint>>

NextMint ==
    \/ \E k \in MintCalls, mintKey \in Mints : GetMintData(k, mintKey)
    \/ \E k \in MintCalls : MintCacheGet(k)
    \/ \E k \in MintCalls : MintGetAccountInfo(k)
    \/ \E k \in MintCalls : MintCacheSet(k)
    \/ \E mint \in Mints : ChainMintTo(mint)

SpecMint == Init /\ [][NextMint]_vars

\* C23: once a getMintData call for a mint has returned its data, every later call
\* for that mint makes no chain RPC call and returns the decoded fields that a call
\* which fetched the mint from chain and wrote the document returned.
C23_CacheReadThrough ==
    \A k \in MintCalls :
        (mintCall[k] # Undefined /\ mintCall[k].after # {}) =>
            /\ mintCall[k].rpcCalls = 0
            /\ mintCall[k].pc \in {"get", "done"}
            /\ mintCall[k].pc = "done" =>
                    /\ mintCall[k].error = NoError
                    /\ \E j \in MintCalls :
                            /\ MintSucceeded(j)
                            /\ mintCall[j].mint = mintCall[k].mint
                            /\ mintCall[j].rpcCalls = 1
                            /\ mintCall[j].returned = mintCall[k].returned

\* C23 witness: a call fetched USDC from chain and wrote it, a call made after it
\* returned the same fields without any RPC call.
C23_Witness ==
    \E j, k \in MintCalls :
        /\ MintSucceeded(j) /\ MintSucceeded(k)
        /\ mintCall[j].mint = USDC_MINT /\ mintCall[k].mint = USDC_MINT
        /\ mintCall[j].rpcCalls = 1 /\ mintCall[k].rpcCalls = 0
        /\ j \in mintCall[k].after
        /\ mintCall[k].returned = mintCall[j].returned
        /\ mintCall[k].returned.supply = InitialChainMint[USDC_MINT].supply

\* no getMintData call is between its read of the chain and its write
MintWritesDone ==
    \A k \in MintCalls :
        mintCall[k] = Undefined \/ mintCall[k].pc \notin {"getAccountInfo", "set"}

\* C24: under any interleaving of concurrent getMintData calls for one mint, two
\* simultaneous misses included, every caller receives the same decoded fields, a
\* write never changes an entry that was written, and the entry after all writes
\* equals the decoded mint account on chain.
C24_ConcurrentMissesAgree ==
    /\ \A j, k \in MintCalls :
            (MintSucceeded(j) /\ MintSucceeded(k) /\ mintCall[j].mint = mintCall[k].mint) =>
                mintCall[j].returned = mintCall[k].returned
    /\ \A k \in MintCalls :
            (/\ mintCall[k] # Undefined
             /\ mintCall[k].pc = "set"
             /\ mintCall[k].mint \in DOMAIN mintDocs) =>
                mintDocument(mintCall[k].mint, mintCall[k].decodedMintData)
                    = mintDocs[mintCall[k].mint]
    /\ MintWritesDone =>
            \A mint \in DOMAIN mintDocs :
                mintFromDocument(mintDocs[mint]) = chainMint[mint]

(***************************************************************************)
(* Execution on chain can fail: the cluster includes the transaction in a  *)
(* block, charges its fee and reports it confirmed with an err, and        *)
(* getTransaction returns it with meta.err set. No token moves.            *)
(***************************************************************************)
\* the cluster processes a broadcast message whose transfer fails (the source
\* account holds less than the amount, say): sendRawTransaction was called with
\* skipPreflight, so nothing kept the message from the leader
LandFailed ==
    \E message \in network \ (landed \cup expired) :
        /\ landed' = landed \cup {message}
        /\ failed' = failed \cup {message}
        /\ UNCHANGED <<pc, transaction, data, rebroadcasts, result, network,
                       cryptoPayment, meetings, built, timeouts, sent, expired, indexed,
                       http, systemTransfer, create, mintVars, toast>>

\* one sendTransaction call on a transfer to the merchant's account that executes
\* or fails to execute
NextExecute ==
    \/ \E message \in SubmitMessages, payload \in Payloads :
            Broadcast(1, message, payload)
    \/ CallStep(1)
    \/ Cluster
    \/ LandFailed

SpecExecute == Init /\ [][NextExecute]_vars

\* C25: the payment record is written and the fulfilment fires only for a
\* transaction whose execution on chain succeeded; a confirmed transaction whose
\* execution failed never passes verification.
C25_FailedExecutionNeverVerified ==
    /\ \A c \in Calls : Accepted(c) => transaction[c] \notin failed
    /\ \A sig \in DOMAIN cryptoPayment : MessageOf(sig) \notin failed
    /\ \A i \in 1..Len(meetings) : MessageOf(meetings[i].signature) \notin failed

(***************************************************************************)
(* What else a client can sign: an instruction with the accounts and the   *)
(* data layout of the settlement transfer (u8 instruction, u64 amount, u8  *)
(* decimals) that is not a transferChecked of the token program.           *)
(***************************************************************************)
ApproveChecked == 13
OTHER_PROGRAM_ID == "OTHER_PROGRAM_ID"

\* the settlement transfer's keys and data under another program id or another
\* instruction number
LookalikeInstruction(programId, instruction, amount) ==
    [programId |-> programId,
     keys |-> <<Meta("PAYER_USDC_ATA", FALSE, TRUE), Meta(USDC_MINT, FALSE, FALSE),
                Meta(USDC_TOKEN_ACCOUNT, FALSE, TRUE), Meta("PAYER", TRUE, FALSE),
                Meta(PAYMENT_REFERENCE, FALSE, FALSE)>>,
     data |-> [instruction |-> instruction, amount |-> amount, decimals |-> USDC_DECIMALS]]

LookalikeMessages ==
    {compileToV0Message("PAYER", "blockhash",
                        <<LookalikeInstruction(programId, instruction, n * price.c)>>, <<>>) :
        programId \in {TOKEN_PROGRAM_ID, OTHER_PROGRAM_ID},
        instruction \in {TransferChecked, ApproveChecked},
        n \in 1..MaxUnits}

\* one sendTransaction call on the settlement transfer or on one of its lookalikes
NextLookalike ==
    \/ \E message \in LookalikeMessages, payload \in Payloads :
            Broadcast(1, message, payload)
    \/ Pipeline(1)

SpecLookalike == Init /\ [][NextLookalike]_vars

\* the last instruction of the message is a transferChecked of the token program
IsTokenTransferChecked(message) ==
    /\ Len(message.compiledInstructions) > 0
    /\ LastOf(message).programIdIndex \in 1..Len(message.staticAccountKeys)
    /\ message.staticAccountKeys[LastOf(message).programIdIndex] = TOKEN_PROGRAM_ID
    /\ LastOf(message).data.instruction = TransferChecked

\* C26: verification succeeds only if the last instruction of the fetched
\* transaction is a transferChecked instruction of the SPL token program; an
\* instruction of another program, or another token instruction, with the same data
\* layout and account keys is rejected, with no record and no fulfilment.
C26_OnlyTokenTransferCheckedVerifies ==
    /\ \A c \in Calls : Accepted(c) => IsTokenTransferChecked(transaction[c])
    /\ \A sig \in DOMAIN cryptoPayment : IsTokenTransferChecked(MessageOf(sig))
    /\ \A i \in 1..Len(meetings) : IsTokenTransferChecked(MessageOf(meetings[i].signature))

\* C27: verification never succeeds for a transfer whose raw amount is 0: every
\* verified payment is of at least one billing unit, and no record is written and
\* no fulfilment fires for a zero-amount transfer whose other fields are valid.
C27_ZeroAmountNeverVerified ==
    /\ \A c \in Calls :
            (Accepted(c) /\ IsTransfer(transaction[c])) =>
                RawAmount(transaction[c]) >= UnitPriceBaseUnits
    /\ \A sig \in DOMAIN cryptoPayment : RawAmount(MessageOf(sig)) >= UnitPriceBaseUnits
    /\ \A i \in 1..Len(meetings) :
            RawAmount(MessageOf(meetings[i].signature)) >= UnitPriceBaseUnits

\* the quantity string is the decimal notation of a positive integer
IsPositiveInteger(quantity) ==
    LET q == BigNumberFromString(quantity)
    IN  ~q.nan /\ q.c > 0 /\ q.c % Pow(10, q.dp) = 0

\* C28: for every quantity string for which createTransaction returns a
\* transaction, the quantity is a positive integer and the raw amount of the
\* settlement transfer is a positive exact multiple of the unit price; a built
\* payment, submitted as it is, never fails the verifier's amount check.
C28_BuiltQuantityIsPositiveInteger ==
    /\ HasBuilt =>
            /\ IsPositiveInteger(built.quantity)
            /\ RawAmount(built.transaction) > 0
            /\ RawAmount(built.transaction) % UnitPriceBaseUnits = 0
    /\ \A c \in Calls :
            (HasBuilt /\ transaction[c] = built.transaction) =>
                result[c] # ErrorMessage("amount not transferred")

(***************************************************************************)
(* getMints and fetchMints (src/app/api/initialData/route.ts lines         *)
(* 248-308): the documents of the requested mints are read, the mints      *)
(* without a document are fetched from chain in one request, written and   *)
(* merged over the cached ones.                                            *)
(***************************************************************************)
\* the document fetchMints writes and returns for a mint
fetchedMintData(mintAddress, decodedMintData) ==
    [mint |-> mintAddress,
     mintAuthorityOption |-> decodedMintData.mintAuthorityOption,
     mintAuthority |-> decodedMintData.mintAuthority,
     supply |-> FormatRadix(DecChars, decodedMintData.supply),
     decimals |-> decodedMintData.decimals,
     isInitialized |-> decodedMintData.isInitialized,
     freezeAuthorityOption |-> decodedMintData.freezeAuthorityOption,
     freezeAuthority |-> decodedMintData.freezeAuthority]

\* b overrides a: { ...a, ...b }
Spread(a, b) ==
    [key \in DOMAIN a \cup DOMAIN b |-> IF key \in DOMAIN b THEN b[key] ELSE a[key]]

\* the keys of a sequence of pairs set one after the other, later ones winning
RECURSIVE Assigned(_)
Assigned(pairs) ==
    IF pairs = <<>> THEN <<>>
    ELSE Spread(Assigned(SubSeq(pairs, 1, Len(pairs) - 1)),
                pairs[Len(pairs)].key :> pairs[Len(pairs)].value)

\* filteredCachedData.forEach((data, idx) => combinedData[mints[idx]] = data)
combinedDataOf(mints, cachedData) ==
    LET filteredCachedData == SelectSeq(cachedData, LAMBDA x : x # Undefined)
    IN  Assigned([idx \in 1..Len(filteredCachedData) |->
                    [key |-> mints[idx], value |-> filteredCachedData[idx]]])

\* newMintData of fetchMints: one entry for every missing mint with an account
newMintDataOf(missingMints, mintsResponse) ==
    Assigned(SelectSeq([index \in 1..Len(missingMints) |->
                            [key |-> missingMints[index],
                             value |-> IF mintsResponse[index] = Undefined THEN Undefined
                                       ELSE fetchedMintData(missingMints[index],
                                                            mintsResponse[index])]],
                       LAMBDA pair : pair.value # Undefined))

\* getMints(mints) is called and the reads of the documents answer: Undefined
\* stands for null. The missing mints are kept in the order of the request (the
\* order in which the reads complete only permutes the fetch and its answer)
GetMints(mints) ==
    /\ IF mintsResult = Undefined THEN TRUE ELSE mintsResult.pc = "done"
    /\ LET cachedData == [i \in 1..Len(mints) |->
                IF mints[i] \in DOMAIN mintDocs THEN mintDocs[mints[i]] ELSE Undefined]
       IN  mintsResult' =
                [pc |-> "fetchMints", mints |-> mints, cachedData |-> cachedData,
                 missingMints |-> SelectSeq(mints, LAMBDA m : m \notin DOMAIN mintDocs),
                 mintsResponse |-> <<>>, returned |-> Undefined]
    /\ UNCHANGED <<mintDocs, mintCall, chainMint, besidesMint>>

\* fetchMints: getMultipleAccountsInfo answers (it is not sent for an empty list)
FetchMints ==
    /\ mintsResult # Undefined /\ mintsResult.pc = "fetchMints"
    /\ mintsResult' = [mintsResult EXCEPT
            !.pc = "set",
            !.mintsResponse = [index \in 1..Len(mintsResult.missingMints) |->
                IF mintsResult.missingMints[index] \in DOMAIN chainMint
                THEN chainMint[mintsResult.missingMints[index]] ELSE Undefined]]
    /\ UNCHANGED <<mintDocs, mintCall, chainMint, besidesMint>>

\* fetchMints: the documents are written; getMints merges and returns
SetMints ==
    /\ mintsResult # Undefined /\ mintsResult.pc = "set"
    /\ LET fetchedData == newMintDataOf(mintsResult.missingMints, mintsResult.mintsResponse)
           combinedData == combinedDataOf(mintsResult.mints, mintsResult.cachedData)
       IN  /\ mintDocs' = Spread(mintDocs, fetchedData)
           /\ mintsResult' = [mintsResult EXCEPT
                    !.pc = "done", !.returned = Spread(combinedData, fetchedData)]
    /\ UNCHANGED <<mintCall, chainMint, besidesMint>>

\* the requests: every list of distinct mints
MintLists ==
    {mints \in UNION {[1..n -> Mints] : n \in 1..Cardinality(Mints)} :
        \A i, j \in 1..Len(mints) : i # j => mints[i] # mints[j]}

NextMints ==
    \/ \E mints \in MintLists : GetMints(mints)
    \/ FetchMints
    \/ SetMints
    \/ \E mint \in Mints : ChainMintTo(mint)

SpecMints == Init /\ [][NextMints]_vars

MintsReturned == mintsResult # Undefined /\ mintsResult.pc = "done"

\* the i-th requested mint had a document when it was read, or an account when the
\* missing mints were fetched
MintAvailable(i) ==
    \/ mintsResult.cachedData[i] # Undefined
    \/ \E index \in 1..Len(mintsResult.missingMints) :
            /\ mintsResult.missingMints[index] = mintsResult.mints[i]
            /\ mintsResult.mintsResponse[index] # Undefined

\* C29: getMints returns under every key m the data cached or fetched for m itself
\* (entry.mint = m), for every combination and order of hits and misses among the
\* requested mints, and no requested mint with available data is missing from the
\* result.
C29_MintsKeyedByOwnMint ==
    MintsReturned =>
        /\ \A m \in DOMAIN mintsResult.returned : mintsResult.returned[m].mint = m
        /\ \A i \in 1..Len(mintsResult.mints) :
                MintAvailable(i) => mintsResult.mints[i] \in DOMAIN mintsResult.returned

(***************************************************************************)
(* handleSolanaPayment (src/components/MeetingForm.tsx lines 97-143): the  *)
(* client awaits sendTransaction and shows a toast. sendTransaction        *)
(* resolves to a string in every case, its signature or the message of the *)
(* error it caught, so the await never throws on an error of the call.     *)
(***************************************************************************)
PaymentDone == "Payment done. Meeting booked."

\* sendTransaction resolved: the toast of the lines behind the await, with the
\* returned string in its link
HandleSolanaPaymentToast(c) ==
    /\ pc[c] = "done"
    /\ toast[c] = Undefined
    /\ toast' = [toast EXCEPT ![c] = [title |-> PaymentDone, signature |-> result[c]]]
    /\ UNCHANGED <<paymentVars, http, systemTransfer, create, mintVars, failed>>

\* what handleSolanaPayment submits: the settlement transfer of a whole number of
\* units that createTransaction built and the wallet signed
PaymentMessages ==
    ClientMessagesOf({n * price.c : n \in 1..MaxUnits}, {USDC_TOKEN_ACCOUNT},
                     {PAYMENT_REFERENCE})

NextClient ==
    \/ \E message \in PaymentMessages, payload \in Payloads :
            Broadcast(1, message, payload)
    \/ Pipeline(1)
    \/ HandleSolanaPaymentToast(1)

SpecClient == Init /\ [][NextClient]_vars

\* C30: handleSolanaPayment reports "Payment done. Meeting booked." only when the
\* payment was confirmed, verified and fulfilled, and reports an error when the
\* broadcast, the confirmation or the verification failed.
C30_ToastTellsSuccessFromFailure ==
    \A c \in Calls :
        toast[c] # Undefined =>
            /\ toast[c].title = PaymentDone =>
                    /\ result[c] = Signature(SignatureOf(transaction[c]))
                    /\ transaction[c] \in landed
                    /\ SignatureOf(transaction[c]) \in DOMAIN cryptoPayment
                    /\ Fulfillments(SignatureOf(transaction[c])) # {}
            /\ Rejected(c) => toast[c].title # PaymentDone

====
